---- MODULE Spec2Model ----
(***************************************************************************)
(* PG Atlas scoring engine (pg_atlas): active-subgraph projection,         *)
(* criticality and decay criticality, percentile ranks, pony factor / HHI, *)
(* the metric gate, the maintenance debt surface, the keystone contributor *)
(* index and the funding efficiency ratio.                                 *)
(*                                                                         *)
(* Numbers.  Python floats are modelled exactly:                           *)
(*   - a percentile is the rational [num, den] (rank * 100 / n);           *)
(*   - an HHI is an integer number of tenths (round(hhi, 1) * 10);         *)
(*   - a decay weight is an integer number of 1/Scale units.               *)
(* None is the integer NoneVal wherever the code stores None in a numeric  *)
(* attribute, and the string "None" for the tri-state 'active' attribute.  *)
(***************************************************************************)
EXTENDS Integers, Sequences, FiniteSets, TLC

VARIABLES
    pc,           \* the function about to run ("done" when none is)
    config,       \* the PGAtlasConfig in use
    G,            \* the full graph handed to active_subgraph_projection
    G_active,     \* the graph the scorers read
    dormant,      \* dormant_nodes returned by the projection
    crit,         \* criticality_scores: node -> int
    crit_pcts,    \* percentile ranks of crit: node -> rational
    decay,        \* decay criticality: node -> thousandths, or "raised"
    pony,         \* pony_results: repo -> ContributorRiskResult
    gate_row,     \* the arguments of evaluate_project
    gate,         \* the MetricGateResult of evaluate_project
    mds,          \* the MaintenanceDebtEntry list
    kci,          \* the KeystoneContributorResult list
    df_projects,  \* title -> total_awarded_usd
    fer,          \* the FundingEfficiencyResult list
    sources,      \* the CSV rows and ingestion results the graph is built from
    df_scores,    \* the rows handed to evaluate_all_projects
    gate_results, \* the MetricGateResult list of evaluate_all_projects
    adopt_scores, \* adoption_scores: node -> score
    G_und,        \* the undirected graph returned by kcore_analysis
    kcores,       \* core_numbers: node -> int
    bridges,      \* the bridge edges returned by find_bridge_edges
    snapshot,     \* the EcosystemSnapshot
    stages,       \* the stages run_full_pipeline has completed, in order
    threads,      \* the position and locals of each concurrently running scorer
    files,        \* the files on disk: path -> content
    proc,         \* the locals of the running ingestion or checkpoint call
    snapshot_a,   \* the earlier EcosystemSnapshot handed to compare_snapshots
    delta,        \* the dict returned by compare_snapshots
    hist          \* history of the checkpoint and ingestion calls made so far

(* The variables beyond the per-function scorers' inputs and outputs,      *)
(* but stages: every function appends its name to stages when it returns.  *)
ext == <<sources, df_scores, gate_results, adopt_scores, G_und, kcores, bridges,
         snapshot, threads>>

(* The file system, the ingestion process and the snapshot comparison.     *)
io == <<files, proc, snapshot_a, delta, hist>>

vars == <<pc, config, G, G_active, dormant, crit, crit_pcts, decay, pony,
          gate_row, gate, mds, kci, df_projects, fer, ext, stages, io>>

----------------------------------------------------------------------------
(* Bounds of the model.                                                    *)

MaxRequired == 3       \* gate_signals_required ranges over 0..MaxRequired
MaxRank == 4           \* percentile inputs are r*100/n, 1 <= n <= MaxRank
MaxSkew == 1           \* days_since_commit is sampled within MaxSkew of a window
MaxDepEdges == 4       \* depends_on edges in a sampled dependency graph
MaxScore == 3          \* raw scores handed to compute_percentile_ranks
MaxCommits == 4        \* small commit counts on a contributed_to edge
MaxKciEdges == 3       \* depends_on edges in a graph sampled for the keystone index
MaxRows == 3           \* rows of the DataFrame handed to evaluate_all_projects

NoneVal == 0 - 1       \* Python None in a numeric attribute

----------------------------------------------------------------------------
(* Rationals with positive denominators.                                   *)

Rat(n, d) == [num |-> n, den |-> d]
RatOfInt(i) == Rat(i, 1)
RatGE(a, b) == a.num * b.den >= b.num * a.den
RatLT(a, b) == a.num * b.den < b.num * a.den
RatLE(a, b) == a.num * b.den <= b.num * a.den
RatEq(a, b) == a.num * b.den = b.num * a.den

(* The empty dict.                                                         *)
EmptyMap == [x \in {} |-> 0]

(* The sum of f over the finite set S.                                     *)
RECURSIVE SumOver(_, _)
SumOver(S, f) ==
    IF S = {} THEN 0
    ELSE LET x == CHOOSE y \in S : TRUE
         IN  f[x] + SumOver(S \ {x}, f)

----------------------------------------------------------------------------
(* config.py                                                               *)

DEFAULT_CONFIG ==
    [ active_window_days          |-> 90,
      criticality_pass_percentile |-> 50,
      decay_halflife_days         |-> 30,
      pony_factor_threshold       |-> Rat(1, 2),
      hhi_moderate                |-> 1500,
      hhi_concentrated            |-> 2500,
      hhi_critical                |-> 5000,
      pony_pass_hhi_max           |-> 2500,
      adoption_pass_percentile    |-> 40,
      mds_criticality_quartile    |-> 75,
      mds_hhi_min                 |-> 2500,
      gate_signals_required       |-> 2 ]

(* A graph is nodes, their attribute dicts, the edges (one per ordered      *)
(* pair, as in a networkx DiGraph) and the graph-level dict G.graph.       *)
EmptyGraph == [nodes |-> {}, attr |-> EmptyMap, edges |-> {}, graph |-> EmptyMap]

IoUnused ==
    /\ files = EmptyMap /\ proc = EmptyMap /\ snapshot_a = EmptyMap /\ delta = EmptyMap
    /\ hist = EmptyMap

(* The variables of ext before anything has written them.                 *)
ExtUnused ==
    /\ sources = EmptyMap /\ df_scores = <<>> /\ gate_results = <<>>
    /\ adopt_scores = EmptyMap /\ G_und = EmptyGraph /\ kcores = EmptyMap
    /\ bridges = {} /\ snapshot = EmptyMap /\ stages = <<>> /\ threads = EmptyMap
    /\ IoUnused

(* No MetricGateResult yet.                                                *)
NoGate == [project |-> "", passed |-> FALSE, signals_passed |-> NoneVal]

(* data.get("archived", False), then its truth value.                      *)
Archived(d) == d.archived = "True"

(* d.get("active", False), then its truth value: True alone is truthy.     *)
IsMarkedActive(d) == d.active = "True"

(* enrich_graph_with_ingestion, activity data: the 'active' attribute a    *)
(* node gets with its days_since_commit and archived (old is kept when     *)
(* days is None).                                                          *)
builder_active(days, archived, old) ==
    IF days # NoneVal
    THEN (IF days <= 90 /\ archived # "True" THEN "True" ELSE "False")
    ELSE old

----------------------------------------------------------------------------
(* graph/active_subgraph.py                                                *)

node_retained_mut(d, window) ==
    IF d.node_type \in {"Project", "Contributor"} THEN TRUE
    ELSE IF d.node_type \in {"Repo", "ExternalRepo"}
         THEN IF d.days_since_commit = NoneVal
              THEN d.node_type = "ExternalRepo"
              ELSE d.days_since_commit < window /\ ~ Archived(d)
         ELSE TRUE

(* The classification of one node in the loop over G.nodes(data=True).     *)
node_retained(d, window) ==
    IF d.node_type \in {"Project", "Contributor"} THEN TRUE
    ELSE IF d.node_type \in {"Repo", "ExternalRepo"}
         THEN IF d.days_since_commit = NoneVal
              THEN d.node_type = "ExternalRepo"
              ELSE d.days_since_commit <= window /\ ~ Archived(d)
         ELSE TRUE   \* unknown node type: retained, with a warning

(* A projection that also prunes a Contributor left without any edge.     *)
active_subgraph_projection_cascading(Gf, cfg) ==
    LET window == cfg.active_window_days
        active_nodes  == { n \in Gf.nodes :
                             /\ node_retained(Gf.attr[n], window)
                             /\ Gf.attr[n].node_type = "Contributor" =>
                                  \E e \in Gf.edges : e.u = n }
        dormant_nodes == Gf.nodes \ active_nodes
    IN  [ G_active |->
            [ nodes |-> active_nodes,
              attr  |-> [ n \in active_nodes |-> Gf.attr[n] ],
              edges |-> { e \in Gf.edges : e.u \in active_nodes /\ e.v \in active_nodes },
              graph |-> [ active_window_days |-> window,
                          nodes_retained |-> Cardinality(active_nodes),
                          nodes_removed  |-> Cardinality(dormant_nodes),
                          dormant_nodes  |-> dormant_nodes ] ],
          dormant_nodes |-> dormant_nodes ]

active_subgraph_projection_mut(Gf, cfg) ==
    LET window == cfg.active_window_days
        active_nodes  == { n \in Gf.nodes : node_retained(Gf.attr[n], window) }
        dormant_nodes == Gf.nodes \ active_nodes
    IN  [ G_active |->
            [ nodes |-> active_nodes,
              attr  |-> [ n \in active_nodes |-> Gf.attr[n] ],
              edges |-> { e \in Gf.edges : e.u \in active_nodes },
              graph |-> [ active_window_days |-> window,
                          nodes_retained |-> Cardinality(active_nodes),
                          nodes_removed  |-> Cardinality(dormant_nodes),
                          dormant_nodes  |-> dormant_nodes ] ],
          dormant_nodes |-> dormant_nodes ]

active_subgraph_projection(Gf, cfg) ==
    LET window == cfg.active_window_days
        active_nodes  == { n \in Gf.nodes : node_retained(Gf.attr[n], window) }
        dormant_nodes == Gf.nodes \ active_nodes
    IN  [ G_active |->
            [ nodes |-> active_nodes,
              attr  |-> [ n \in active_nodes |-> Gf.attr[n] ],
              edges |-> { e \in Gf.edges : e.u \in active_nodes /\ e.v \in active_nodes },
              graph |-> [ active_window_days |-> window,
                          nodes_retained |-> Cardinality(active_nodes),
                          nodes_removed  |-> Cardinality(dormant_nodes),
                          dormant_nodes  |-> dormant_nodes ] ],
          dormant_nodes |-> dormant_nodes ]

(* The call active_subgraph_projection(G, config).                         *)
Projection(next) ==
    /\ pc = "active_subgraph_projection"
    /\ LET r == active_subgraph_projection(G, config)
       IN  /\ G_active' = r.G_active
           /\ dormant' = r.dormant_nodes
    /\ pc' = next
    /\ stages' = Append(stages, pc)
    /\ UNCHANGED <<config, G, crit, crit_pcts, decay, pony, gate_row, gate,
                   mds, kci, df_projects, fer, ext>>
    /\ UNCHANGED io

Windows == {30, 90}

DaySamples ==
    {NoneVal, 0} \cup { w + k : <<w, k>> \in Windows \X ((0 - MaxSkew)..MaxSkew) }

NodeAttr(t, days, archived, active, project, usd) ==
    [ node_type |-> t, days_since_commit |-> days, archived |-> archived,
      active |-> active, project |-> project, total_awarded_usd |-> usd ]

Edge(u, v, t, commits) == [u |-> u, v |-> v, edge_type |-> t, commits |-> commits]

(* Graphs for the projection: node "a" of any type (one of them unknown),  *)
(* node "b" a Repo or ExternalRepo, node "P" a Project, node "x" a         *)
(* Contributor.                                                            *)
ProjectionGraphs ==
    { [ nodes |-> {"a", "b", "P", "x"},
        attr  |-> [ n \in {"a", "b", "P", "x"} |->
                      CASE n = "a" -> NodeAttr(ta, da, aa,
                                          builder_active(da, aa, "None"), "P", 0)
                        [] n = "b" -> NodeAttr(tb, db, ab,
                                          builder_active(db, ab, "None"), "P", 0)
                        [] n = "P" -> NodeAttr("Project", NoneVal, "Missing", "None", "", 100)
                        [] n = "x" -> NodeAttr("Contributor", NoneVal, "Missing", "True", "", 0) ],
        edges |-> E,
        graph |-> EmptyMap ]
      : <<ta, da, aa, tb, db, ab, E>> \in
          {"Project", "Contributor", "Repo", "ExternalRepo", "Org"} \X DaySamples
            \X {"True", "False", "Missing"}
            \X {"Repo", "ExternalRepo"} \X DaySamples \X {"True", "False"}
            \X SUBSET { Edge("a", "b", "depends_on", NoneVal),
                        Edge("b", "P", "belongs_to", NoneVal),
                        Edge("x", "b", "contributed_to", 3) } }

InitProjection ==
    /\ pc = "active_subgraph_projection"
    /\ config \in { [DEFAULT_CONFIG EXCEPT !.active_window_days = w] : w \in Windows }
    /\ G \in ProjectionGraphs
    /\ G_active = EmptyGraph /\ dormant = {}
    /\ gate_row = EmptyMap /\ gate = NoGate
    /\ crit = EmptyMap /\ crit_pcts = EmptyMap /\ decay = EmptyMap
    /\ pony = EmptyMap /\ mds = <<>> /\ kci = <<>>
    /\ df_projects = EmptyMap /\ fer = <<>>
    /\ ExtUnused

NextProjection == Projection("done")

SpecProjection == InitProjection /\ [][NextProjection]_vars

ProjectionRan == pc = "done" /\ G_active.graph # EmptyMap

(* C2: the projection retains a Repo or ExternalRepo node if and only if   *)
(* its days_since_commit is at most the configured window and it is not    *)
(* archived, where unknown activity (None) prunes a Repo and retains an    *)
(* ExternalRepo; Project and Contributor nodes are always retained.        *)
C2_RetainedIffActive ==
    ProjectionRan =>
        \A n \in G.nodes :
            LET d == G.attr[n]
                kept == n \in G_active.nodes
            IN  /\ d.node_type \in {"Project", "Contributor"} => kept
                /\ d.node_type = "Repo" /\ d.days_since_commit = NoneVal => ~ kept
                /\ d.node_type = "ExternalRepo" /\ d.days_since_commit = NoneVal => kept
                /\ d.node_type \in {"Repo", "ExternalRepo"} /\ d.days_since_commit # NoneVal
                     => (kept <=> /\ d.days_since_commit <= config.active_window_days
                                  /\ d.archived # "True")
                /\ kept <=> n \notin dormant

C2_Witness ==
    /\ ProjectionRan
    /\ G.attr["a"].node_type = "Repo" /\ G.attr["a"].days_since_commit = NoneVal
    /\ "a" \in dormant
    /\ G.attr["b"].node_type = "ExternalRepo" /\ G.attr["b"].days_since_commit = NoneVal
    /\ G.attr["b"].archived = "True"
    /\ "b" \in G_active.nodes
    /\ "P" \in G_active.nodes /\ "x" \in G_active.nodes


(* C12: the graph returned by the projection is the induced subgraph on    *)
(* the retained nodes: an edge of the input graph is in it, attributes     *)
(* included, exactly when both its endpoints are retained; retained nodes  *)
(* keep their attributes; no edge of it has a pruned endpoint.             *)
C12_InducedSubgraph ==
    ProjectionRan =>
        /\ G_active.nodes \cup dormant = G.nodes
        /\ G_active.nodes \cap dormant = {}
        /\ \A e \in G.edges :
             e \in G_active.edges <=> (e.u \in G_active.nodes /\ e.v \in G_active.nodes)
        /\ G_active.edges \subseteq G.edges
        /\ \A n \in G_active.nodes : G_active.attr[n] = G.attr[n]
        /\ \A e \in G_active.edges : e.u \notin dormant /\ e.v \notin dormant

(* "a" is pruned and "b" retained: the edge a -> b is dropped, the edges   *)
(* b -> P and x -> b are kept with their attributes.                       *)
C12_Witness ==
    /\ ProjectionRan
    /\ "a" \in dormant /\ "b" \in G_active.nodes
    /\ Cardinality(G.edges) = 3
    /\ G_active.edges = { Edge("b", "P", "belongs_to", NoneVal),
                          Edge("x", "b", "contributed_to", 3) }

(* The call active_subgraph_projection(G_active, config) on the output of  *)
(* an earlier call: G becomes the graph handed in.                         *)
Reprojection(next) ==
    /\ pc = "active_subgraph_projection_again"
    /\ LET r == active_subgraph_projection(G_active, config)
       IN  /\ G' = G_active
           /\ G_active' = r.G_active
           /\ dormant' = r.dormant_nodes
    /\ pc' = next
    /\ stages' = Append(stages, pc)
    /\ UNCHANGED <<config, crit, crit_pcts, decay, pony, gate_row, gate,
                   mds, kci, df_projects, fer, ext>>
    /\ UNCHANGED io

NextReprojection ==
    \/ Projection("active_subgraph_projection_again")
    \/ Reprojection("done")

SpecReprojection == InitProjection /\ [][NextReprojection]_vars

(* C13: projecting the output of the projection again, with the same       *)
(* window, returns the same node set and the same edge set (and the same   *)
(* node attributes) and prunes nothing.                                    *)
C13_ProjectionIdempotent ==
    pc = "done" =>
        /\ G_active.nodes = G.nodes
        /\ G_active.edges = G.edges
        /\ G_active.attr = G.attr
        /\ dormant = {}
        /\ G_active.graph.nodes_removed = 0

(* The second projection ran on a graph from which the first one had       *)
(* pruned a node and an edge.                                              *)
C13_Witness ==
    /\ pc = "done"
    /\ G.graph # EmptyMap
    /\ G.graph.nodes_removed = 1
    /\ G.nodes = {"b", "P", "x"}
    /\ Cardinality(G.edges) = 2
    /\ G_active.nodes = {"b", "P", "x"}

----------------------------------------------------------------------------
(* metrics/criticality.py                                                  *)

dep_nodes(Ga) ==
    { n \in Ga.nodes : Ga.attr[n].node_type \in {"Repo", "ExternalRepo"} }

dep_edges_mut(Ga) ==
    { <<e.u, e.v>> : e \in { e \in Ga.edges :
                               /\ e.u \in dep_nodes(Ga) /\ e.v \in dep_nodes(Ga) } }

(* The (u, v) pairs of the depends_on edges between two dep_nodes.         *)
dep_edges(Ga) ==
    { <<e.u, e.v>> : e \in { e \in Ga.edges :
                               /\ e.edge_type = "depends_on"
                               /\ e.u \in dep_nodes(Ga) /\ e.v \in dep_nodes(Ga) } }

(* G_dep.reverse(copy=True), as its edge set.                              *)
reverse(E) == { <<p[2], p[1]>> : p \in E }

(* Breadth-first search: seen grows by the successors of the frontier.     *)
RECURSIVE bfs(_, _, _)
bfs(E, frontier, seen) ==
    IF frontier = {} THEN seen
    ELSE LET nxt == { p[2] : p \in { q \in E : q[1] \in frontier } } \ seen
         IN  bfs(E, nxt, seen \cup nxt)

(* nx.descendants(G, source): all nodes reachable from source, but source. *)
descendants(E, source) == bfs(E, {source}, {source}) \ {source}

active_dependents_mut(Ga, node) ==
    descendants(reverse(dep_edges(Ga)), node)

(* The active_dependents set built for one node in the scoring loop.       *)
active_dependents(Ga, node) ==
    { n \in descendants(reverse(dep_edges(Ga)), node) : IsMarkedActive(Ga.attr[n]) }

compute_criticality_scores(Ga) ==
    [ node \in dep_nodes(Ga) |-> Cardinality(active_dependents(Ga, node)) ]

(* np.exp(-days / halflife) in millionths, at the sampled days and         *)
(* half-lives.                                                             *)
ExpNegMicro(days, halflife) ==
    CASE halflife = 30 ->
           ( CASE days = 0 -> 1000000 [] days = 7 -> 791890 [] days = 30 -> 367879
               [] days = 45 -> 223130 [] days = 89 -> 51475 [] days = 90 -> 49787
               [] days = 200 -> 1273 )
      [] halflife = 1 ->
           ( CASE days = 0 -> 1000000 [] days = 7 -> 912 [] OTHER -> 0 )

(* round(x, 3) of x given in millionths, as thousandths.                   *)
RoundMicroToMilli(x) ==
    LET q == x \div 1000
        r == x % 1000
    IN  IF r > 500 \/ (r = 500 /\ q % 2 = 1) THEN q + 1 ELSE q

decay_dependents_mut(Ga, node) ==
    descendants(reverse(dep_edges(Ga)), node)

(* The active_dependents set of compute_decay_criticality's loop.          *)
decay_dependents(Ga, node) ==
    { n \in descendants(reverse(dep_edges(Ga)), node) : IsMarkedActive(Ga.attr[n]) }

(* -None / halflife raises TypeError.                                      *)
decay_raises(Ga) ==
    \E node \in dep_nodes(Ga) : \E n \in decay_dependents(Ga, node) :
        Ga.attr[n].days_since_commit = NoneVal

compute_decay_criticality(Ga, cfg) ==
    [ node \in dep_nodes(Ga) |->
        RoundMicroToMilli(
            SumOver(decay_dependents(Ga, node),
                    [ n \in Ga.nodes |->
                        IF Ga.attr[n].days_since_commit = NoneVal THEN 0
                        ELSE ExpNegMicro(Ga.attr[n].days_since_commit,
                                         cfg.decay_halflife_days) ])) ]

(* Insertion of x into the ascending sequence s.                           *)
RECURSIVE InsertSorted(_, _)
InsertSorted(x, s) ==
    IF s = <<>> THEN <<x>>
    ELSE IF x <= Head(s) THEN <<x>> \o s
    ELSE <<Head(s)>> \o InsertSorted(x, Tail(s))

(* np.sort(np.array(list(scores.values()))).                               *)
RECURSIVE sorted_scores(_, _)
sorted_scores(scores, keys) ==
    IF keys = {} THEN <<>>
    ELSE LET k == CHOOSE x \in keys : TRUE
         IN  InsertSorted(scores[k], sorted_scores(scores, keys \ {k}))

searchsorted_mut(a, v) ==
    CHOOSE i \in 0..Len(a) :
        /\ \A j \in 1..i : a[j] <= v
        /\ i = Len(a) \/ a[i + 1] > v

(* np.searchsorted(a, v) (side='left'): the first insertion point.         *)
searchsorted(a, v) ==
    CHOOSE i \in 0..Len(a) :
        /\ \A j \in 1..i : a[j] < v
        /\ i = Len(a) \/ a[i + 1] >= v

compute_percentile_ranks(scores) ==
    IF DOMAIN scores = {} THEN EmptyMap
    ELSE LET srt == sorted_scores(scores, DOMAIN scores)
             n   == Len(srt)
         IN  [ node \in DOMAIN scores |-> Rat(searchsorted(srt, scores[node]) * 100, n) ]

(* The call compute_criticality_scores(G_active).                          *)
Criticality(next) ==
    /\ pc = "compute_criticality_scores"
    /\ crit' = compute_criticality_scores(G_active)
    /\ pc' = next
    /\ stages' = Append(stages, pc)
    /\ UNCHANGED <<config, G, G_active, dormant, crit_pcts, decay, pony,
                   gate_row, gate, mds, kci, df_projects, fer, ext>>
    /\ UNCHANGED io

(* The call compute_percentile_ranks(crit).                                *)
PercentileRanks(next) ==
    /\ pc = "compute_percentile_ranks"
    /\ crit_pcts' = compute_percentile_ranks(crit)
    /\ pc' = next
    /\ stages' = Append(stages, pc)
    /\ UNCHANGED <<config, G, G_active, dormant, crit, decay, pony,
                   gate_row, gate, mds, kci, df_projects, fer, ext>>
    /\ UNCHANGED io

(* The call compute_decay_criticality(G_active, crit, config).             *)
DecayCriticality(next) ==
    /\ pc = "compute_decay_criticality"
    /\ IF decay_raises(G_active)
       THEN pc' = "raised" /\ UNCHANGED <<decay, stages>>
       ELSE /\ pc' = next
            /\ stages' = Append(stages, pc)
            /\ decay' = compute_decay_criticality(G_active, config)
    /\ UNCHANGED <<config, G, G_active, dormant, crit, crit_pcts, pony,
                   gate_row, gate, mds, kci, df_projects, fer, ext>>
    /\ UNCHANGED io

(* Dependency graphs: Repos "a", "b", "c" and ExternalRepo "d", with at    *)
(* most MaxDepEdges depends_on edges; a Project "P" (with a stray          *)
(* depends_on edge to "d") and a Contributor "x" stand beside them.        *)
DepPairs ==
    { <<"a", "b">>, <<"b", "c">>, <<"c", "d">>, <<"a", "c">>, <<"a", "d">>,
      <<"b", "d">>, <<"c", "b">>, <<"d", "a">>, <<"b", "a">>, <<"c", "c">> }

DepEdgeSets == { E \in SUBSET DepPairs : Cardinality(E) <= MaxDepEdges }

(* (active, days_since_commit) of a Repo and of an ExternalRepo.           *)
RepoStates == { <<"True", 0>>, <<"True", 45>>, <<"False", 200>> }
ExternalStates == { <<"None", NoneVal>>, <<"True", 7>>, <<"True", NoneVal>> }

DepGraph(E, sa, sb, sc, sd) ==
    [ nodes |-> {"a", "b", "c", "d", "P", "x"},
      attr  |-> [ n \in {"a", "b", "c", "d", "P", "x"} |->
                    CASE n = "a" -> NodeAttr("Repo", sa[2], "False", sa[1], "P", 0)
                      [] n = "b" -> NodeAttr("Repo", sb[2], "False", sb[1], "P", 0)
                      [] n = "c" -> NodeAttr("Repo", sc[2], "False", sc[1], "Q", 0)
                      [] n = "d" -> NodeAttr("ExternalRepo", sd[2], "Missing", sd[1], "", 0)
                      [] n = "P" -> NodeAttr("Project", NoneVal, "Missing", "True", "", 100)
                      [] n = "x" -> NodeAttr("Contributor", NoneVal, "Missing", "True", "", 0) ],
      edges |-> { Edge(p[1], p[2], "depends_on", NoneVal) : p \in E }
                  \cup { Edge("P", "d", "depends_on", NoneVal),
                         Edge("a", "P", "belongs_to", NoneVal),
                         Edge("x", "a", "contributed_to", 3),
                         Edge("x", "b", "contributed_to", 1) },
      graph |-> EmptyMap ]

DepGraphs ==
    { DepGraph(E, sa, sb, sc, sd) : <<E, sa, sb, sc, sd>> \in
        DepEdgeSets \X RepoStates \X RepoStates \X RepoStates \X ExternalStates }

InitCriticality ==
    /\ pc = "compute_criticality_scores"
    /\ config \in { [DEFAULT_CONFIG EXCEPT !.decay_halflife_days = h] : h \in {30, 1} }
    /\ G_active \in DepGraphs
    /\ G = EmptyGraph /\ dormant = {}
    /\ gate_row = EmptyMap /\ gate = NoGate
    /\ crit = EmptyMap /\ crit_pcts = EmptyMap /\ decay = EmptyMap
    /\ pony = EmptyMap /\ mds = <<>> /\ kci = <<>>
    /\ df_projects = EmptyMap /\ fer = <<>>
    /\ ExtUnused

NextCriticality ==
    \/ Criticality("compute_decay_criticality")
    \/ DecayCriticality("done")

SpecCriticality == InitCriticality /\ [][NextCriticality]_vars

(* Transitive closure of R over Nodes, one intermediate node at a time.    *)
RECURSIVE Warshall(_, _, _)
Warshall(R, Nodes, todo) ==
    IF todo = {} THEN R
    ELSE LET k == CHOOSE x \in todo : TRUE
         IN  Warshall(R \cup { p \in Nodes \X Nodes : <<p[1], k>> \in R /\ <<k, p[2]>> \in R },
                      Nodes, todo \ {k})

(* u depends on v, directly or through other packages, in graph Ga.        *)
DependsOnPairs(Ga) ==
    LET N == { n \in Ga.nodes : Ga.attr[n].node_type = "Repo"
                                  \/ Ga.attr[n].node_type = "ExternalRepo" }
        R == { <<e.u, e.v>> : e \in { f \in Ga.edges : f.edge_type = "depends_on"
                                                        /\ f.u \in N /\ f.v \in N } }
    IN  Warshall(R, N, N)

(* The other nodes marked active that transitively depend on P.            *)
ActiveTransitiveDependents(Ga, P) ==
    { n \in Ga.nodes \ {P} : Ga.attr[n].active = "True" /\ <<n, P>> \in DependsOnPairs(Ga) }

CriticalityRan == pc \in {"compute_decay_criticality", "done", "raised"} /\ crit # EmptyMap

IsAllActiveChain(Ga) ==
    /\ dep_edges(Ga) = { <<"a", "b">>, <<"b", "c">>, <<"c", "d">> }
    /\ \A n \in {"a", "b", "c", "d"} : Ga.attr[n].active = "True"

(* C3: for every Repo/ExternalRepo node P of the graph it is given,        *)
(* compute_criticality_scores returns the number of distinct other nodes   *)
(* marked active that depend on P through one or more depends_on edges;    *)
(* a node nothing depends on scores 0, and the all-active chain            *)
(* a -> b -> c -> d scores d = 3, c = 2, b = 1, a = 0.                     *)
C3_CriticalityCountsActiveDependents ==
    CriticalityRan =>
        /\ DOMAIN crit = { n \in G_active.nodes :
                             G_active.attr[n].node_type \in {"Repo", "ExternalRepo"} }
        /\ \A P \in DOMAIN crit :
             crit[P] = Cardinality(ActiveTransitiveDependents(G_active, P))
        /\ \A P \in DOMAIN crit :
             (\A e \in G_active.edges : e.edge_type = "depends_on" => e.v # P) => crit[P] = 0
        /\ IsAllActiveChain(G_active) =>
             crit["d"] = 3 /\ crit["c"] = 2 /\ crit["b"] = 1 /\ crit["a"] = 0

C3_Witness ==
    /\ CriticalityRan
    /\ IsAllActiveChain(G_active)
    /\ crit["d"] = 3 /\ crit["a"] = 0

DecayRan == pc = "done" /\ decay # EmptyMap

(* C7: for every node scored by both functions the decay-weighted          *)
(* criticality (in thousandths) is at most the undecayed criticality.      *)
C7_DecayAtMostBase ==
    DecayRan =>
        \A n \in DOMAIN decay \cap DOMAIN crit : decay[n] <= 1000 * crit[n]

C7_Witness ==
    /\ DecayRan
    /\ \E n \in DOMAIN decay : crit[n] = 3 /\ decay[n] > 0 /\ decay[n] < 3000
    /\ \E n \in DOMAIN decay : crit[n] = 1 /\ decay[n] = 1000
    /\ \E n \in G_active.nodes : G_active.attr[n].active # "True"

(* Score maps for compute_percentile_ranks, the empty one among them.      *)
InitPercentile ==
    /\ pc = "compute_percentile_ranks"
    /\ config = DEFAULT_CONFIG
    /\ crit \in UNION { [K -> 0..MaxScore] : K \in SUBSET {"a", "b", "c", "d"} }
    /\ G = EmptyGraph /\ G_active = EmptyGraph /\ dormant = {}
    /\ gate_row = EmptyMap /\ gate = NoGate
    /\ crit_pcts = EmptyMap /\ decay = EmptyMap
    /\ pony = EmptyMap /\ mds = <<>> /\ kci = <<>>
    /\ df_projects = EmptyMap /\ fer = <<>>
    /\ ExtUnused

NextPercentile == PercentileRanks("done")

SpecPercentile == InitPercentile /\ [][NextPercentile]_vars

PercentileRan == pc = "done" /\ DOMAIN crit # {}

(* C8: for a non-empty score map S and every key n, the percentile rank    *)
(* is 100 * (number of keys scoring strictly below S[n]) / |S|; so it lies *)
(* in [0, 100], a minimum-scoring key gets 0 and no key gets 100.          *)
C8_ExclusivePercentile ==
    PercentileRan =>
        /\ DOMAIN crit_pcts = DOMAIN crit
        /\ \A n \in DOMAIN crit :
             LET below == Cardinality({ k \in DOMAIN crit : crit[k] < crit[n] })
                 size  == Cardinality(DOMAIN crit)
                 p     == crit_pcts[n]
             IN  /\ p.den > 0
                 /\ p.num * size = 100 * below * p.den
                 /\ 0 <= p.num /\ p.num <= 100 * p.den
                 /\ (\A k \in DOMAIN crit : crit[n] <= crit[k]) => p.num = 0
                 /\ p.num # 100 * p.den

C8_Witness ==
    /\ PercentileRan
    /\ DOMAIN crit = {"a", "b", "c", "d"}
    /\ crit["a"] = 0 /\ crit["b"] = 0 /\ crit["c"] = 2 /\ crit["d"] = 3
    /\ crit_pcts["a"] = Rat(0, 4) /\ crit_pcts["c"] = Rat(200, 4)
    /\ crit_pcts["d"] = Rat(300, 4)

----------------------------------------------------------------------------
(* metrics/pony_factor.py                                                  *)

(* Insertion order of the nodes; G.in_edges(repo) yields the edges in the  *)
(* order their source nodes were added.                                    *)
NodeOrder == <<"P", "Q", "a", "b", "c", "d", "x", "y", "z">>

(* The (contributor, commits) list built from the in-edges of repo; an     *)
(* edge without a commits attribute carries NoneVal here.                  *)
RECURSIVE contributors_from(_, _, _)
contributors_from(Ga, repo, order) ==
    IF order = <<>> THEN <<>>
    ELSE LET u    == Head(order)
             hits == { e \in Ga.edges : /\ e.u = u /\ e.v = repo
                                        /\ e.edge_type = "contributed_to"
                                        /\ e.commits # NoneVal }
         IN  (IF hits = {} THEN <<>>
              ELSE <<[contrib |-> u, commits |-> (CHOOSE e \in hits : TRUE).commits]>>)
             \o contributors_from(Ga, repo, Tail(order))

contributors(Ga, repo) == contributors_from(Ga, repo, NodeOrder)

(* sum(c for _, c in contributors).                                        *)
RECURSIVE total_commits(_)
total_commits(cs) ==
    IF cs = <<>> THEN 0 ELSE Head(cs).commits + total_commits(Tail(cs))

(* The numerator of sum(s ** 2): shares are commits / total_commits.       *)
RECURSIVE squared_commits(_)
squared_commits(cs) ==
    IF cs = <<>> THEN 0
    ELSE Head(cs).commits * Head(cs).commits + squared_commits(Tail(cs))

(* shares.sort(key=share, reverse=True)[0]: the first contributor, in list *)
(* order, holding the largest share.                                       *)
top_of(cs) ==
    LET i == CHOOSE i \in 1..Len(cs) :
                 /\ \A j \in 1..Len(cs) : cs[j].commits <= cs[i].commits
                 /\ \A j \in 1..(i - 1) : cs[j].commits < cs[i].commits
    IN  cs[i]

(* round(num / den, 0) for num >= 0, den > 0, ties to even.                *)
RoundHalfEven(num, den) ==
    LET q == num \div den
        r == num % den
    IN  IF 2 * r > den \/ (2 * r = den /\ q % 2 = 1) THEN q + 1 ELSE q

hhi_reported_mut(sq, total) ==
    LET whole == (10000 * sq) \div (total * total)
        rest  == (10000 * sq) % (total * total)
    IN  10 * whole + ((10 * rest) \div (total * total))

(* round(hhi, 1), in tenths, of hhi = sum(s ** 2) * 10_000 where the       *)
(* squared shares sum to sq / total^2.                                     *)
hhi_reported(sq, total) ==
    LET whole == (10000 * sq) \div (total * total)
        rest  == (10000 * sq) % (total * total)
    IN  10 * whole + RoundHalfEven(10 * rest, total * total)

(* The risk tier ladder, on the unrounded hhi = 10000 * sq / total^2.      *)
risk_tier(sq, total, cfg) ==
    IF 10000 * sq < cfg.hhi_moderate * total * total THEN "healthy"
    ELSE IF 10000 * sq < cfg.hhi_concentrated * total * total THEN "moderate"
    ELSE IF 10000 * sq < cfg.hhi_critical * total * total THEN "concentrated"
    ELSE "critical"

(* The ContributorRiskResult of one repo (shannon_entropy, which no other  *)
(* metric reads, is left out); hhi in tenths, top_contributor_share in     *)
(* thousandths.                                                            *)
contributor_risk(repo, cs, cfg) ==
    LET total == total_commits(cs)
        sq    == squared_commits(cs)
        top   == top_of(cs)
    IN  [ repo                  |-> repo,
          pony_factor           |-> IF RatGE(Rat(top.commits, total), cfg.pony_factor_threshold)
                                    THEN 1 ELSE 0,
          hhi                   |-> hhi_reported(sq, total),
          top_contributor       |-> top.contrib,
          top_contributor_share |-> RoundHalfEven(1000 * top.commits, total),
          total_contributors    |-> Len(cs),
          total_commits         |-> total,
          risk_tier             |-> risk_tier(sq, total, cfg) ]

pony_scored_mut(Ga) ==
    { repo \in Ga.nodes :
        /\ Ga.attr[repo].node_type = "Repo"
        /\ Len(contributors(Ga, repo)) > 1
        /\ total_commits(contributors(Ga, repo)) # 0 }

(* Repos with no contributor data or with zero commits are skipped.        *)
pony_scored(Ga) ==
    { repo \in Ga.nodes :
        /\ Ga.attr[repo].node_type = "Repo"
        /\ contributors(Ga, repo) # <<>>
        /\ total_commits(contributors(Ga, repo)) # 0 }

compute_pony_factors(Ga, cfg) ==
    [ repo \in pony_scored(Ga) |-> contributor_risk(repo, contributors(Ga, repo), cfg) ]

(* The call compute_pony_factors(G_active, config).                        *)
PonyFactors(next) ==
    /\ pc = "compute_pony_factors"
    /\ pony' = compute_pony_factors(G_active, config)
    /\ pc' = next
    /\ stages' = Append(stages, pc)
    /\ UNCHANGED <<config, G, G_active, dormant, crit, crit_pcts, decay,
                   gate_row, gate, mds, kci, df_projects, fer, ext>>
    /\ UNCHANGED io

CommitSamples == (0..MaxCommits) \cup {20, 80}

(* Repo "a" with contributors "x", "y", "z" (an edge may lack its commits  *)
(* attribute), Repo "b" with the single contributor "x", and ExternalRepo  *)
(* "d", which has a contributed_to edge but is not a Repo; Repo "c" has no *)
(* contributed_to edge at all.                                             *)
PonyGraph(cx, cy, cz, cb) ==
    [ nodes |-> {"a", "b", "c", "d", "x", "y", "z"},
      attr  |-> [ n \in {"a", "b", "c", "d", "x", "y", "z"} |->
                    CASE n \in {"a", "b", "c"} -> NodeAttr("Repo", 10, "False", "True", "P", 0)
                      [] n = "d" -> NodeAttr("ExternalRepo", NoneVal, "Missing", "None", "", 0)
                      [] OTHER -> NodeAttr("Contributor", NoneVal, "Missing", "True", "", 0) ],
      edges |-> { Edge("x", "a", "contributed_to", cx),
                  Edge("y", "a", "contributed_to", cy),
                  Edge("z", "a", "contributed_to", cz),
                  Edge("x", "b", "contributed_to", cb),
                  Edge("x", "d", "contributed_to", 5),
                  Edge("b", "a", "depends_on", NoneVal) },
      graph |-> EmptyMap ]

PonyConfigs ==
    { DEFAULT_CONFIG,
      [DEFAULT_CONFIG EXCEPT !.pony_factor_threshold = Rat(3, 4),
                             !.hhi_moderate = 4000,
                             !.hhi_concentrated = 6000,
                             !.hhi_critical = 9000] }

InitPony ==
    /\ pc = "compute_pony_factors"
    /\ config \in PonyConfigs
    /\ \E cx \in CommitSamples \cup {NoneVal}, cy \in CommitSamples \cup {NoneVal},
          cz \in CommitSamples \cup {NoneVal}, cb \in {0, 3} :
          G_active = PonyGraph(cx, cy, cz, cb)
    /\ G = EmptyGraph /\ dormant = {}
    /\ gate_row = EmptyMap /\ gate = NoGate
    /\ crit = EmptyMap /\ crit_pcts = EmptyMap /\ decay = EmptyMap
    /\ pony = EmptyMap /\ mds = <<>> /\ kci = <<>>
    /\ df_projects = EmptyMap /\ fer = <<>>
    /\ ExtUnused

NextPony == PonyFactors("done")

SpecPony == InitPony /\ [][NextPony]_vars

PonyRan == pc = "done" /\ G_active # EmptyGraph

(* The contributed_to edges into repo that carry a commit count.           *)
CommitEdges(Ga, repo) ==
    { e \in Ga.edges : e.v = repo /\ e.edge_type = "contributed_to" /\ e.commits # NoneVal }

TotalCommits(Ga, repo) ==
    SumOver(CommitEdges(Ga, repo), [ e \in CommitEdges(Ga, repo) |-> e.commits ])

SumSquaredCommits(Ga, repo) ==
    SumOver(CommitEdges(Ga, repo), [ e \in CommitEdges(Ga, repo) |-> e.commits * e.commits ])

OneContributorMadeEveryCommit(Ga, repo) ==
    \E e \in CommitEdges(Ga, repo) : e.commits = TotalCommits(Ga, repo)

IsEightyTwenty(Ga, repo) ==
    /\ Cardinality(CommitEdges(Ga, repo)) = 2
    /\ { e.commits : e \in CommitEdges(Ga, repo) } = {80, 20}

EightyTwentyScenario ==
    \A repo \in DOMAIN pony :
        (IsEightyTwenty(G_active, repo) /\ config = DEFAULT_CONFIG) =>
            /\ pony[repo].pony_factor = 1
            /\ pony[repo].hhi = 68000
            /\ pony[repo].risk_tier = "critical"

(* C9 as stated: for every scored repo the reported HHI equals             *)
(* 10000 * sum (c_i / total)^2, lies within 0..10000 and is 10000 exactly  *)
(* when one contributor made every commit; commits {80, 20} give           *)
(* pony_factor 1, HHI 6800.0 and tier critical under the defaults.         *)
C9_AsStated ==
    PonyRan =>
        /\ \A repo \in DOMAIN pony :
             LET T  == TotalCommits(G_active, repo)
                 sq == SumSquaredCommits(G_active, repo)
                 whole == (10000 * sq) \div (T * T)
                 rest  == (10000 * sq) % (T * T)
             IN  /\ pony[repo].hhi = 10 * whole /\ rest = 0
                 /\ 0 <= pony[repo].hhi /\ pony[repo].hhi <= 100000
                 /\ pony[repo].hhi = 100000 <=> OneContributorMadeEveryCommit(G_active, repo)
        /\ EightyTwentyScenario

(* C9, amended: for every scored repo the reported HHI equals              *)
(* 10000 * sum (c_i / total)^2 rounded to one decimal place (so it is      *)
(* within 0.05 of that value), lies within 0..10000, is 10000.0 whenever   *)
(* one contributor made every commit, and is 10000.0 only if the unrounded *)
(* value is at least 9999.95; commits {80, 20} give pony_factor 1,         *)
(* HHI 6800.0 and tier critical under the defaults.                        *)
C9_HhiRoundedToOneDecimal ==
    PonyRan =>
        /\ \A repo \in DOMAIN pony :
             LET T  == TotalCommits(G_active, repo)
                 sq == SumSquaredCommits(G_active, repo)
                 whole == (10000 * sq) \div (T * T)
                 rest  == (10000 * sq) % (T * T)
                 tenth == pony[repo].hhi - 10 * whole
                 err   == tenth * T * T - 10 * rest
             IN  /\ 2 * err <= T * T /\ 2 * err >= 0 - T * T
                 /\ (2 * err = T * T \/ 2 * err = 0 - T * T) => pony[repo].hhi % 2 = 0
                 /\ 0 <= pony[repo].hhi /\ pony[repo].hhi <= 100000
                 /\ OneContributorMadeEveryCommit(G_active, repo) => pony[repo].hhi = 100000
                 /\ pony[repo].hhi = 100000 => (T * T - sq) <= (T * T) \div 200000
        /\ EightyTwentyScenario

C9_Witness ==
    /\ PonyRan
    /\ config = DEFAULT_CONFIG
    /\ "a" \in DOMAIN pony /\ "b" \in DOMAIN pony
    /\ IsEightyTwenty(G_active, "a")
    /\ pony["a"].hhi = 68000 /\ pony["a"].pony_factor = 1
    /\ pony["b"].hhi = 100000

----------------------------------------------------------------------------
(* metrics/maintenance_debt.py                                             *)

classify_commit_trend(days_since_commit) ==
    IF days_since_commit < 14 THEN "active"
    ELSE IF days_since_commit < 45 THEN "stable"
    ELSE IF days_since_commit < 89 THEN "stagnant"
    ELSE "declining"

trend_qualifies_mut(trend) == trend # "active"

(* Condition 3: declining or stagnant activity.                            *)
trend_qualifies(trend) == trend \in {"stagnant", "declining"}

(* The checks of the loop that come before days_since_commit is read:      *)
(* a Repo with criticality data, in the top quartile, with pony data and   *)
(* a concentrated HHI (hhi in tenths).                                     *)
mds_reaches_trend(Ga, node, scores, ranks, pony_results, cfg) ==
    /\ Ga.attr[node].node_type = "Repo"
    /\ node \in DOMAIN scores
    /\ ~ RatLT(ranks[node], RatOfInt(cfg.mds_criticality_quartile))
    /\ node \in DOMAIN pony_results
    /\ ~ (pony_results[node].hhi < 10 * cfg.mds_hhi_min)

(* classify_commit_trend(None) raises TypeError.                           *)
mds_raises(Ga, scores, pony_results, cfg) ==
    \E node \in Ga.nodes :
        /\ mds_reaches_trend(Ga, node, scores, compute_percentile_ranks(scores),
                             pony_results, cfg)
        /\ Ga.attr[node].days_since_commit = NoneVal

(* The MaintenanceDebtEntry of a qualifying repo (the narrative text is    *)
(* left out); criticality_percentile and hhi in tenths, risk_score in      *)
(* ten-thousandths.  A repo without a project attribute (project = "")     *)
(* is reported under its own name.                                         *)
mds_entry(Ga, node, scores, ranks, pony_results, cfg) ==
    LET data == Ga.attr[node]
        pr   == pony_results[node]
    IN  [ project                |-> IF data.project = "" THEN node ELSE data.project,
          criticality_percentile |-> RoundHalfEven(10 * ranks[node].num, ranks[node].den),
          hhi                    |-> pr.hhi,
          hhi_tier               |-> IF pr.hhi >= 10 * cfg.hhi_critical
                                     THEN "critical" ELSE "concentrated",
          commit_trend           |-> classify_commit_trend(data.days_since_commit),
          days_since_last_commit |-> data.days_since_commit,
          transitive_dependents  |-> scores[node],
          top_contributor        |-> pr.top_contributor,
          top_contributor_share  |-> pr.top_contributor_share,
          risk_score             |-> RoundHalfEven(ranks[node].num * pr.hhi,
                                                   ranks[node].den * 1000) ]

(* The entries appended by the loop, in node order.                        *)
RECURSIVE mds_entries(_, _, _, _, _, _)
mds_entries(Ga, order, scores, ranks, pony_results, cfg) ==
    IF order = <<>> THEN <<>>
    ELSE LET node == Head(order)
             rest == mds_entries(Ga, Tail(order), scores, ranks, pony_results, cfg)
         IN  IF /\ node \in Ga.nodes
                /\ mds_reaches_trend(Ga, node, scores, ranks, pony_results, cfg)
                /\ trend_qualifies(classify_commit_trend(Ga.attr[node].days_since_commit))
             THEN <<mds_entry(Ga, node, scores, ranks, pony_results, cfg)>> \o rest
             ELSE rest

(* entries.sort(key=risk_score, reverse=True): stable, highest first.      *)
RECURSIVE sort_by_risk(_)
sort_by_risk(entries) ==
    IF entries = <<>> THEN <<>>
    ELSE LET e    == Head(entries)
             rest == sort_by_risk(Tail(entries))
             k    == Cardinality({ i \in 1..Len(rest) : rest[i].risk_score > e.risk_score })
         IN  SubSeq(rest, 1, k) \o <<e>> \o SubSeq(rest, k + 1, Len(rest))

compute_maintenance_debt_surface(Ga, scores, pony_results, cfg) ==
    sort_by_risk(mds_entries(Ga, NodeOrder, scores, compute_percentile_ranks(scores),
                             pony_results, cfg))

(* The call compute_maintenance_debt_surface(G_active, crit, pony, config).*)
MaintenanceDebt(next) ==
    /\ pc = "compute_maintenance_debt_surface"
    /\ IF mds_raises(G_active, crit, pony, config)
       THEN pc' = "raised" /\ UNCHANGED <<mds, stages>>
       ELSE /\ pc' = next
            /\ stages' = Append(stages, pc)
            /\ mds' = compute_maintenance_debt_surface(G_active, crit, pony, config)
    /\ UNCHANGED <<config, G, G_active, dormant, crit, crit_pcts, decay, pony,
                   gate_row, gate, kci, df_projects, fer, ext>>
    /\ UNCHANGED io

(* A ContributorRiskResult with the given HHI (in tenths).                 *)
PonyResult(repo, hhi10) ==
    [ repo |-> repo, pony_factor |-> 1, hhi |-> hhi10, top_contributor |-> "x",
      top_contributor_share |-> 800, total_contributors |-> 2, total_commits |-> 10,
      risk_tier |-> IF hhi10 >= 50000 THEN "critical" ELSE "concentrated" ]

(* Repos "a", "b" of project "P", Repo "c" of project "Q" (60 days, one    *)
(* contributor) and ExternalRepo "d".                                      *)
MdsGraph(da, db) ==
    [ nodes |-> {"a", "b", "c", "d"},
      attr  |-> [ n \in {"a", "b", "c", "d"} |->
                    CASE n = "a" -> NodeAttr("Repo", da, "False", "True", "P", 0)
                      [] n = "b" -> NodeAttr("Repo", db, "False", "True", "P", 0)
                      [] n = "c" -> NodeAttr("Repo", 60, "False", "True", "Q", 0)
                      [] n = "d" -> NodeAttr("ExternalRepo", NoneVal, "Missing", "None", "", 0) ],
      edges |-> { Edge("a", "d", "depends_on", NoneVal) },
      graph |-> EmptyMap ]

MdsPonyResults ==
    { [ r \in K |-> CASE r = "a" -> PonyResult("a", ha)
                      [] r = "b" -> PonyResult("b", 50000)
                      [] r = "c" -> PonyResult("c", 100000) ] :
        <<K, ha>> \in {{"a", "b", "c"}, {"a", "c"}} \X {24999, 25000, 60000} }

MdsConfigs ==
    { DEFAULT_CONFIG,
      [DEFAULT_CONFIG EXCEPT !.mds_criticality_quartile = 50, !.mds_hhi_min = 5000] }

InitMds ==
    /\ pc = "compute_maintenance_debt_surface"
    /\ config \in MdsConfigs
    /\ \E da \in {44, 45, NoneVal}, db \in {13, 89} : G_active = MdsGraph(da, db)
    /\ crit \in UNION { [K -> 0..MaxScore] : K \in {{"a", "b", "c", "d"}, {"a", "b", "d"}} }
    /\ pony \in MdsPonyResults
    /\ G = EmptyGraph /\ dormant = {}
    /\ gate_row = EmptyMap /\ gate = NoGate
    /\ crit_pcts = EmptyMap /\ decay = EmptyMap
    /\ mds = <<>> /\ kci = <<>>
    /\ df_projects = EmptyMap /\ fer = <<>>
    /\ ExtUnused

NextMds == MaintenanceDebt("done")

SpecMds == InitMds /\ [][NextMds]_vars

MdsRan == pc = "done" /\ G_active # EmptyGraph

(* The three qualifying conditions of a repo, each from its definition.    *)
MeetsCriticality(r) ==
    /\ r \in DOMAIN crit
    /\ 100 * Cardinality({ k \in DOMAIN crit : crit[k] < crit[r] })
         >= config.mds_criticality_quartile * Cardinality(DOMAIN crit)

MeetsHhi(r) == r \in DOMAIN pony /\ pony[r].hhi >= 10 * config.mds_hhi_min

MeetsTrend(r) == G_active.attr[r].days_since_commit >= 45

Qualifies(r) ==
    /\ G_active.attr[r].node_type = "Repo"
    /\ MeetsCriticality(r) /\ MeetsHhi(r) /\ MeetsTrend(r)

(* Entry e reports repo r: MaintenanceDebtEntry carries no node id, so an  *)
(* entry is tied to a repo by the values it copies from it.                *)
EntryReports(e, r) ==
    /\ G_active.attr[r].node_type = "Repo"
    /\ e.project = G_active.attr[r].project
    /\ e.days_since_last_commit = G_active.attr[r].days_since_commit
    /\ r \in DOMAIN crit /\ e.transitive_dependents = crit[r]
    /\ r \in DOMAIN pony /\ e.hhi = pony[r].hhi

(* C4: every entry returned by compute_maintenance_debt_surface reports a  *)
(* repo, every repo it can be reporting meets all three qualifying         *)
(* conditions (criticality percentile >= mds_criticality_quartile, HHI >=  *)
(* mds_hhi_min, trend stagnant or declining), and there are no more        *)
(* entries than qualifying repos: a repo failing any one condition gets no *)
(* entry, however strongly it meets the other two.                         *)
C4_NoEntryForFailingRepo ==
    MdsRan =>
        /\ \A i \in 1..Len(mds) :
             /\ \E r \in G_active.nodes : EntryReports(mds[i], r)
             /\ \A r \in G_active.nodes : EntryReports(mds[i], r) => Qualifies(r)
             /\ mds[i].commit_trend \in {"stagnant", "declining"}
        /\ Len(mds) = Cardinality({ r \in G_active.nodes : Qualifies(r) })

(* "a" qualifies; "b" fails the trend only (HHI 5000, 13 days); "c" fails  *)
(* criticality only (HHI 10000, 60 days).                                  *)
C4_Witness ==
    /\ MdsRan
    /\ Len(mds) = 1 /\ EntryReports(mds[1], "a")
    /\ "b" \in DOMAIN pony /\ "c" \in DOMAIN crit
    /\ MeetsCriticality("b") /\ MeetsHhi("b") /\ ~ MeetsTrend("b")
    /\ ~ MeetsCriticality("c") /\ MeetsHhi("c") /\ MeetsTrend("c")

----------------------------------------------------------------------------
(* metrics/keystone_contributor.py                                         *)

(* The number of transitive dependents of each listed repo, added up.      *)
RECURSIVE sum_of_descendants(_, _)
sum_of_descendants(Ga, repo_list) ==
    IF repo_list = <<>> THEN 0
    ELSE (IF Head(repo_list) \in dep_nodes(Ga)
          THEN Cardinality(descendants(reverse(dep_edges(Ga)), Head(repo_list)))
          ELSE 0)
         + sum_of_descendants(Ga, Tail(repo_list))

compute_transitive_union_mut(Ga, repo_list) == sum_of_descendants(Ga, repo_list)

(* len(all_at_risk): the union of nx.descendants(G_rev, repo) over the     *)
(* listed repos that are in G_rev.                                         *)
compute_transitive_union(Ga, repo_list) ==
    IF repo_list = <<>> THEN 0
    ELSE Cardinality(UNION { descendants(reverse(dep_edges(Ga)), repo_list[i]) :
                               i \in { j \in 1..Len(repo_list) :
                                         repo_list[j] \in dep_nodes(Ga) } })

(* contributor_to_repos[contributor]: the repos, in pony_results order,    *)
(* whose pony_factor is 1 and whose top_contributor is the contributor.    *)
RECURSIVE dominated_repos(_, _, _)
dominated_repos(pony_results, contributor, order) ==
    IF order = <<>> THEN <<>>
    ELSE (IF /\ Head(order) \in DOMAIN pony_results
             /\ pony_results[Head(order)].pony_factor = 1
             /\ pony_results[Head(order)].top_contributor = contributor
          THEN <<Head(order)>> ELSE <<>>)
         \o dominated_repos(pony_results, contributor, Tail(order))

(* The keys of contributor_to_repos in insertion order.                    *)
RECURSIVE kci_contributors(_, _, _)
kci_contributors(pony_results, order, seen) ==
    IF order = <<>> THEN <<>>
    ELSE LET r == Head(order)
         IN  IF /\ r \in DOMAIN pony_results
                /\ pony_results[r].pony_factor = 1
                /\ pony_results[r].top_contributor \notin seen
             THEN <<pony_results[r].top_contributor>>
                  \o kci_contributors(pony_results, Tail(order),
                                      seen \cup {pony_results[r].top_contributor})
             ELSE kci_contributors(pony_results, Tail(order), seen)

(* criticality_scores.get(r, 0).                                           *)
score_or_zero(scores, r) == IF r \in DOMAIN scores THEN scores[r] ELSE 0

RECURSIVE sum_scores(_, _)
sum_scores(scores, repos) ==
    IF repos = <<>> THEN 0
    ELSE score_or_zero(scores, Head(repos)) + sum_scores(scores, Tail(repos))

raw_kci(scores, pony_results) ==
    LET cs == kci_contributors(pony_results, NodeOrder, {})
    IN  [ c \in { cs[i] : i \in 1..Len(cs) } |->
            sum_scores(scores, dominated_repos(pony_results, c, NodeOrder)) ]

(* The KeystoneContributorResult of one contributor (the narrative text is *)
(* left out); kci_percentile in tenths.                                    *)
keystone_result(Ga, scores, pony_results, c) ==
    LET repos == dominated_repos(pony_results, c, NodeOrder)
        pcts  == compute_percentile_ranks(raw_kci(scores, pony_results))
    IN  [ contributor             |-> c,
          dominant_repos          |-> repos,
          repo_criticality_scores |-> [ r \in { repos[i] : i \in 1..Len(repos) } |->
                                          score_or_zero(scores, r) ],
          kci_score               |-> raw_kci(scores, pony_results)[c],
          kci_percentile          |-> RoundHalfEven(10 * pcts[c].num, pcts[c].den),
          total_dominant_repos    |-> Len(repos),
          aggregate_criticality   |-> sum_scores(scores, repos),
          at_risk_downstream      |-> compute_transitive_union(Ga, repos) ]

(* The results appended by the loop: contributors with a non-zero KCI.     *)
RECURSIVE keystone_results(_, _, _, _)
keystone_results(Ga, scores, pony_results, cs) ==
    IF cs = <<>> THEN <<>>
    ELSE (IF raw_kci(scores, pony_results)[Head(cs)] = 0 THEN <<>>
          ELSE <<keystone_result(Ga, scores, pony_results, Head(cs))>>)
         \o keystone_results(Ga, scores, pony_results, Tail(cs))

(* results.sort(key=kci_score, reverse=True): stable, highest first.       *)
RECURSIVE sort_by_kci(_)
sort_by_kci(results) ==
    IF results = <<>> THEN <<>>
    ELSE LET e    == Head(results)
             rest == sort_by_kci(Tail(results))
             k    == Cardinality({ i \in 1..Len(rest) : rest[i].kci_score > e.kci_score })
         IN  SubSeq(rest, 1, k) \o <<e>> \o SubSeq(rest, k + 1, Len(rest))

compute_keystone_contributors(Ga, scores, pony_results) ==
    sort_by_kci(keystone_results(Ga, scores, pony_results,
                                 kci_contributors(pony_results, NodeOrder, {})))

(* The call compute_keystone_contributors(G_active, crit, pony).           *)
KeystoneContributors(next) ==
    /\ pc = "compute_keystone_contributors"
    /\ kci' = compute_keystone_contributors(G_active, crit, pony)
    /\ pc' = next
    /\ stages' = Append(stages, pc)
    /\ UNCHANGED <<config, G, G_active, dormant, crit, crit_pcts, decay, pony,
                   gate_row, gate, mds, df_projects, fer, ext>>
    /\ UNCHANGED io

(* A ContributorRiskResult naming the top contributor and the flag.        *)
KciPonyResult(repo, top, flag) ==
    [ repo |-> repo, pony_factor |-> flag, hhi |-> 68000, top_contributor |-> top,
      top_contributor_share |-> 800, total_contributors |-> 2, total_commits |-> 10,
      risk_tier |-> "critical" ]

KciPonyChoices(repo) ==
    { <<>>, <<KciPonyResult(repo, "x", 1)>>, <<KciPonyResult(repo, "y", 1)>>,
      <<KciPonyResult(repo, "x", 0)>> }

KciPonyResults ==
    { [ r \in { q \in {"a", "b", "c"} : (CASE q = "a" -> ra [] q = "b" -> rb [] q = "c" -> rc) # <<>> }
          |-> (CASE r = "a" -> ra [] r = "b" -> rb [] r = "c" -> rc)[1] ] :
        <<ra, rb, rc>> \in KciPonyChoices("a") \X KciPonyChoices("b")
                            \X { <<>>, <<KciPonyResult("c", "x", 1)>> } }

KciGraphs ==
    { DepGraph(E, <<"True", 0>>, sb, <<"True", 0>>, sd) : <<E, sb, sd>> \in
        { E \in SUBSET DepPairs : Cardinality(E) <= MaxKciEdges }
          \X { <<"True", 45>>, <<"False", 200>> }
          \X { <<"None", NoneVal>>, <<"True", 7>> } }

InitKci ==
    /\ pc = "compute_keystone_contributors"
    /\ config = DEFAULT_CONFIG
    /\ G_active \in KciGraphs
    /\ crit \in { compute_criticality_scores(G_active), [ r \in {"a", "c"} |-> 1 ] }
    /\ pony \in KciPonyResults
    /\ G = EmptyGraph /\ dormant = {}
    /\ gate_row = EmptyMap /\ gate = NoGate
    /\ crit_pcts = EmptyMap /\ decay = EmptyMap
    /\ mds = <<>> /\ kci = <<>>
    /\ df_projects = EmptyMap /\ fer = <<>>
    /\ ExtUnused

NextKci == KeystoneContributors("done")

SpecKci == InitKci /\ [][NextKci]_vars

KciRan == pc = "done" /\ G_active # EmptyGraph

(* The repos a contributor dominates: pony_factor 1 and top contributor.   *)
Dominated(c) ==
    { r \in DOMAIN pony : pony[r].pony_factor = 1 /\ pony[r].top_contributor = c }

(* The other nodes of the active subgraph that transitively depend on r.   *)
TransitiveDependents(r) ==
    { n \in G_active.nodes \ {r} : <<n, r>> \in DependsOnPairs(G_active) }

(* C5: for every keystone contributor, at_risk_downstream is the size of   *)
(* the union, over the repos the contributor dominates, of the nodes of    *)
(* the active subgraph that transitively depend on the repo; a node that   *)
(* depends on several dominated repos is counted once.                     *)
C5_AtRiskIsUnionOfDependents ==
    KciRan =>
        \A i \in 1..Len(kci) :
            kci[i].at_risk_downstream =
                Cardinality(UNION { TransitiveDependents(r) : r \in Dominated(kci[i].contributor) })

(* "x" dominates two repos that share a dependent: the union is smaller    *)
(* than the sum of the two dependent counts.                               *)
C5_Witness ==
    /\ KciRan
    /\ \E i \in 1..Len(kci) :
         /\ kci[i].contributor = "x"
         /\ Dominated("x") = {"a", "b"}
         /\ TransitiveDependents("a") \cap TransitiveDependents("b") # {}
         /\ kci[i].at_risk_downstream
              < Cardinality(TransitiveDependents("a")) + Cardinality(TransitiveDependents("b"))
         /\ kci[i].at_risk_downstream >= 2

----------------------------------------------------------------------------
(* metrics/funding_efficiency.py                                           *)

(* Project titles in ascending string order, as sorted() yields them.      *)
ProjectNames == <<"P", "Q", "R">>

compute_fer_tier(fer_value) ==
    IF fer_value = NoneVal THEN "unfunded"
    ELSE IF fer_value > 20000 THEN "critically_underfunded"
    ELSE IF fer_value > 13000 THEN "underfunded"
    ELSE IF fer_value > 7000 THEN "balanced"
    ELSE IF fer_value > 4000 THEN "overfunded"
    ELSE "significantly_overfunded"

(* The Repo nodes that carry a non-empty project attribute.                *)
project_repos(Ga, project) ==
    { n \in Ga.nodes : Ga.attr[n].node_type = "Repo" /\ Ga.attr[n].project = project }

(* Step 1: criticality summed per project.                                 *)
project_criticality(Ga, scores) ==
    [ project \in { Ga.attr[n].project : n \in { m \in Ga.nodes :
                       Ga.attr[m].node_type = "Repo" /\ Ga.attr[m].project # "" } } |->
        SumOver(project_repos(Ga, project),
                [ n \in Ga.nodes |-> score_or_zero(scores, n) ]) ]

(* project_pony_flags: the pony_factor flags of the project's repos added. *)
pony_risk_repos(Ga, pony_results, project) ==
    SumOver(project_repos(Ga, project) \cap DOMAIN pony_results,
            [ n \in DOMAIN pony_results |-> pony_results[n].pony_factor ])

(* pd.to_numeric(..., errors="coerce").fillna(0): a value that is not a    *)
(* number (NoneVal here) becomes 0.                                        *)
funding_map(df) == [ title \in DOMAIN df |-> IF df[title] = NoneVal THEN 0 ELSE df[title] ]

funding_for_pct(Ga, scores, df) ==
    [ project \in DOMAIN project_criticality(Ga, scores) \cup DOMAIN df |->
        IF project \in DOMAIN df THEN funding_map(df)[project] ELSE 0 ]

crit_for_pct(Ga, scores, df) ==
    [ project \in DOMAIN project_criticality(Ga, scores) \cup DOMAIN df |->
        IF project \in DOMAIN project_criticality(Ga, scores)
        THEN project_criticality(Ga, scores)[project] ELSE 0 ]

(* Funding percentiles are ranked among the funded projects only; every    *)
(* other project gets 0.                                                   *)
fund_percentiles(funding) ==
    LET funded == { project \in DOMAIN funding : funding[project] > 0 }
        raw    == compute_percentile_ranks([ project \in funded |-> funding[project] ])
    IN  [ project \in DOMAIN funding |->
            IF project \in funded THEN raw[project] ELSE RatOfInt(0) ]

(* fer, in ten-thousandths: None if funding_usd == 0 or funding_pct == 0,  *)
(* else round(crit_pct / funding_pct, 4).                                  *)
fer_value(funding_usd, crit_pct, funding_pct) ==
    IF funding_usd = 0 \/ funding_pct.num = 0 THEN NoneVal
    ELSE RoundHalfEven(10000 * crit_pct.num * funding_pct.den,
                       crit_pct.den * funding_pct.num)

(* The FundingEfficiencyResult of one project (the narrative text is left  *)
(* out); percentiles in tenths, fer in ten-thousandths.                    *)
fer_result(Ga, scores, pony_results, df, project) ==
    LET crits   == crit_for_pct(Ga, scores, df)
        funding == funding_for_pct(Ga, scores, df)
        cp      == compute_percentile_ranks(crits)[project]
        fp      == fund_percentiles(funding)[project]
        f       == fer_value(funding[project], cp, fp)
    IN  [ project         |-> project,
          criticality_raw |-> crits[project],
          criticality_pct |-> RoundHalfEven(10 * cp.num, cp.den),
          funding_usd     |-> funding[project],
          funding_pct     |-> RoundHalfEven(10 * fp.num, fp.den),
          fer             |-> f,
          fer_tier        |-> compute_fer_tier(f),
          pony_flag       |-> \E n \in project_repos(Ga, project) \cap DOMAIN pony_results :
                                  pony_results[n].pony_factor = 1,
          pony_risk_repos |-> pony_risk_repos(Ga, pony_results, project) ]

(* The results appended by the loop over sorted(all_projects).             *)
RECURSIVE fer_results(_, _, _, _, _)
fer_results(Ga, scores, pony_results, df, names) ==
    IF names = <<>> THEN <<>>
    ELSE (IF Head(names) \in DOMAIN funding_for_pct(Ga, scores, df)
          THEN <<fer_result(Ga, scores, pony_results, df, Head(names))>> ELSE <<>>)
         \o fer_results(Ga, scores, pony_results, df, Tail(names))

(* fer_sort_key orders None first, then the higher FER first.              *)
fer_before(x, y) == x.fer # NoneVal /\ (y.fer = NoneVal \/ y.fer > x.fer)

(* fer_results.sort(key=fer_sort_key): stable.                             *)
RECURSIVE sort_by_fer(_)
sort_by_fer(results) ==
    IF results = <<>> THEN <<>>
    ELSE LET e    == Head(results)
             rest == sort_by_fer(Tail(results))
             k    == Cardinality({ i \in 1..Len(rest) : fer_before(e, rest[i]) })
         IN  SubSeq(rest, 1, k) \o <<e>> \o SubSeq(rest, k + 1, Len(rest))

compute_funding_efficiency(Ga, scores, pony_results, df) ==
    IF DOMAIN project_criticality(Ga, scores) = {} THEN <<>>
    ELSE sort_by_fer(fer_results(Ga, scores, pony_results, df, ProjectNames))

(* The call compute_funding_efficiency(G_active, crit, pony, df_projects). *)
FundingEfficiency(next) ==
    /\ pc = "compute_funding_efficiency"
    /\ fer' = compute_funding_efficiency(G_active, crit, pony, df_projects)
    /\ pc' = next
    /\ stages' = Append(stages, pc)
    /\ UNCHANGED <<config, G, G_active, dormant, crit, crit_pcts, decay, pony,
                   gate_row, gate, mds, kci, df_projects, ext>>
    /\ UNCHANGED io

(* Repos "a" and "b" of project "P", Repo "c" of project pc (or of none)   *)
(* and ExternalRepo "d".                                                   *)
FerGraph(pa, pcn) ==
    [ nodes |-> {"a", "b", "c", "d"},
      attr  |-> [ n \in {"a", "b", "c", "d"} |->
                    CASE n = "a" -> NodeAttr("Repo", 10, "False", "True", pa, 0)
                      [] n = "b" -> NodeAttr("Repo", 10, "False", "True", "P", 0)
                      [] n = "c" -> NodeAttr("Repo", 10, "False", "True", pcn, 0)
                      [] n = "d" -> NodeAttr("ExternalRepo", NoneVal, "Missing", "None", "Q", 0) ],
      edges |-> { Edge("a", "d", "depends_on", NoneVal) },
      graph |-> EmptyMap ]

(* total_awarded_usd values of df_projects; NoneVal is a non-numeric cell. *)
FundingSamples == {0, 100, 200, NoneVal}

InitFer ==
    /\ pc = "compute_funding_efficiency"
    /\ config = DEFAULT_CONFIG
    /\ \E pa \in {"P", ""}, pcn \in {"Q", ""} : G_active = FerGraph(pa, pcn)
    /\ crit \in [ {"a", "b", "c", "d"} -> {0, 2} ] \cup { [ r \in {"a"} |-> 1 ] }
    /\ pony \in { EmptyMap, [ r \in {"a", "c"} |-> KciPonyResult(r, "x", IF r = "a" THEN 1 ELSE 0) ] }
    /\ df_projects \in UNION { [ K -> FundingSamples ] : K \in SUBSET {"P", "Q", "R"} }
    /\ G = EmptyGraph /\ dormant = {}
    /\ gate_row = EmptyMap /\ gate = NoGate
    /\ crit_pcts = EmptyMap /\ decay = EmptyMap
    /\ mds = <<>> /\ kci = <<>> /\ fer = <<>>
    /\ ExtUnused

NextFer == FundingEfficiency("done")

SpecFer == InitFer /\ [][NextFer]_vars

FerRan == pc = "done" /\ G_active # EmptyGraph

(* The funding amount of a project: its total_awarded_usd, 0 if it has     *)
(* none.                                                                   *)
FundingAmount(project) ==
    IF project \in DOMAIN df_projects /\ df_projects[project] # NoneVal
    THEN df_projects[project] ELSE 0

(* Exclusive ranks read off the result: the projects with a strictly lower *)
(* aggregate criticality, and the funded projects with strictly lower      *)
(* funding.                                                                *)
LowerCriticality(e) ==
    Cardinality({ j \in 1..Len(fer) : fer[j].criticality_raw < e.criticality_raw })

FundedEntries == { j \in 1..Len(fer) : fer[j].funding_usd > 0 }

LowerFunding(e) ==
    Cardinality({ j \in FundedEntries : fer[j].funding_usd < e.funding_usd })

(* e.fer is criticality percentile / funding percentile to four decimals,  *)
(* the funding percentile being non-zero.                                  *)
FerIsRatio(e) ==
    LET num == 10000 * LowerCriticality(e) * Cardinality(FundedEntries)
        den == Len(fer) * LowerFunding(e)
    IN  /\ den > 0
        /\ e.fer # NoneVal
        /\ 2 * (e.fer * den - num) <= den
        /\ 2 * (num - e.fer * den) <= den

(* C6 as stated: for every project in the result, FER is null with tier    *)
(* "unfunded" when the project's funding amount is zero, and FER is        *)
(* criticality_percentile / funding_percentile (to four decimals, the      *)
(* divisor being non-zero) otherwise; unfunded projects get funding        *)
(* percentile 0.                                                           *)
C6_FerNullIffUnfunded ==
    FerRan =>
        \A i \in 1..Len(fer) :
            /\ fer[i].funding_usd = FundingAmount(fer[i].project)
            /\ FundingAmount(fer[i].project) = 0 =>
                 /\ fer[i].fer = NoneVal /\ fer[i].fer_tier = "unfunded"
                 /\ fer[i].funding_pct = 0
            /\ FundingAmount(fer[i].project) # 0 =>
                 FerIsRatio(fer[i]) /\ fer[i].fer_tier # "unfunded"

----------------------------------------------------------------------------
(* metrics/gate.py                                                         *)

(* int(bool)                                                               *)
IntOfBool(b) == IF b THEN 1 ELSE 0

(* _build_pony_factor_narrative: the verdict and, on a failure, the risk   *)
(* tier label it prints (boundaries 5000 and 2500 are literals there).     *)
build_pony_factor_narrative(hhi10, passed) ==
    IF passed THEN [verdict |-> "PASS", risk_tier |-> ""]
    ELSE [verdict |-> "FAIL",
          risk_tier |-> IF hhi10 >= 50000 THEN "critical"
                        ELSE IF hhi10 >= 25000 THEN "concentrated"
                        ELSE "moderate"]

crit_passed(row, cfg) ==
    RatGE(row.criticality_pct, RatOfInt(cfg.criticality_pass_percentile))

pony_passed(row, cfg) == row.hhi < 10 * cfg.pony_pass_hhi_max

adopt_passed(row, cfg) ==
    RatGE(row.adoption_score, RatOfInt(cfg.adoption_pass_percentile))

signals_passed(row, cfg) ==
    IntOfBool(crit_passed(row, cfg)) + IntOfBool(pony_passed(row, cfg))
        + IntOfBool(adopt_passed(row, cfg))

gate_passed_mut(n, cfg) == n > cfg.gate_signals_required
gate_passed(n, cfg) == n >= cfg.gate_signals_required

gate_borderline_mut(n, cfg) == n >= cfg.gate_signals_required
gate_borderline(n, cfg) == n = cfg.gate_signals_required

evaluate_project(row, cfg) ==
    LET cp == crit_passed(row, cfg)
        pp == pony_passed(row, cfg)
        ap == adopt_passed(row, cfg)
        n  == signals_passed(row, cfg)
        passed     == gate_passed(n, cfg)
        borderline == gate_borderline(n, cfg)
    IN  [ project          |-> row.project,
          passed           |-> passed,
          signals_passed   |-> n,
          signals_required |-> cfg.gate_signals_required,
          criticality |-> [ signal_name |-> "criticality",
                            raw_value |-> row.criticality_raw,
                            percentile |-> row.criticality_pct,
                            passed |-> cp,
                            threshold_used |-> cfg.criticality_pass_percentile,
                            narrative |-> IF cp THEN "PASS" ELSE "FAIL" ],
          pony_factor |-> [ signal_name |-> "pony_factor",
                            raw_value |-> row.hhi,
                            percentile |-> row.hhi,
                            passed |-> pp,
                            threshold_used |-> cfg.pony_pass_hhi_max,
                            narrative |-> build_pony_factor_narrative(row.hhi, pp) ],
          adoption    |-> [ signal_name |-> "adoption",
                            raw_value |-> row.adoption_score,
                            percentile |-> row.adoption_score,
                            passed |-> ap,
                            threshold_used |-> cfg.adoption_pass_percentile,
                            narrative |-> IF ap THEN "PASS" ELSE "FAIL" ],
          gate_explanation |-> [ result_label |-> IF passed THEN "PASS" ELSE "FAIL",
                                 review_line  |-> borderline /\ passed ],
          borderline       |-> borderline,
          thresholds_snapshot |->
              [ criticality_pass_percentile |-> cfg.criticality_pass_percentile,
                pony_pass_hhi_max           |-> cfg.pony_pass_hhi_max,
                adoption_pass_percentile    |-> cfg.adoption_pass_percentile,
                gate_signals_required       |-> cfg.gate_signals_required ] ]

(* The call evaluate_project(project, ..., config).                        *)
EvaluateProject(next) ==
    /\ pc = "evaluate_project"
    /\ gate' = evaluate_project(gate_row, config)
    /\ pc' = next
    /\ stages' = Append(stages, pc)
    /\ UNCHANGED <<config, G, G_active, dormant, crit, crit_pcts, decay, pony,
                   gate_row, mds, kci, df_projects, fer, ext>>
    /\ UNCHANGED io

(* Percentile-like inputs: every r*100/n, with 100 itself.                 *)
PctInputs == { Rat(100 * r, n) : <<r, n>> \in
                 { p \in (0..MaxRank) \X (1..MaxRank) : p[1] <= p[2] } }

(* HHI inputs in tenths, on and around the thresholds in use.              *)
HhiInputs == {0, 24999, 25000, 25001, 49999, 50000, 100000}

GateConfigs ==
    { [DEFAULT_CONFIG EXCEPT !.gate_signals_required = q,
                             !.criticality_pass_percentile = c,
                             !.pony_pass_hhi_max = h]
        : <<q, c, h>> \in (0..MaxRequired) \X {50, 75} \X {2500, 5000} }

InitGate ==
    /\ pc = "evaluate_project"
    /\ config \in GateConfigs
    /\ gate_row \in [ project : {"pkg"},
                      criticality_raw : {0},
                      criticality_pct : PctInputs,
                      hhi : HhiInputs,
                      top_contributor : {"alice"},
                      top_contributor_share : {Rat(1, 2)},
                      adoption_score : PctInputs ]
    /\ gate = NoGate
    /\ G = EmptyGraph /\ G_active = EmptyGraph /\ dormant = {}
    /\ crit = EmptyMap /\ crit_pcts = EmptyMap /\ decay = EmptyMap
    /\ pony = EmptyMap /\ mds = <<>> /\ kci = <<>>
    /\ df_projects = EmptyMap /\ fer = <<>>
    /\ ExtUnused

NextGate == EvaluateProject("done")

SpecGate == InitGate /\ [][NextGate]_vars

(* The signals of the gate that pass on the given row, by name.            *)
PassingSignals(row, cfg) ==
    { s \in {"criticality", "pony_factor", "adoption"} :
        \/ s = "criticality"
             /\ row.criticality_pct.num >= cfg.criticality_pass_percentile * row.criticality_pct.den
        \/ s = "pony_factor" /\ row.hhi < cfg.pony_pass_hhi_max * 10
        \/ s = "adoption"
             /\ row.adoption_score.num >= cfg.adoption_pass_percentile * row.adoption_score.den }

GateRan == pc = "done" /\ gate # NoGate

(* C1: evaluate_project sets passed = true if and only if at least         *)
(* gate_signals_required of the three signals (criticality percentile >=   *)
(* threshold, HHI < threshold, adoption score >= threshold) pass.          *)
C1_PassedIffEnoughSignals ==
    GateRan =>
        (gate.passed <=>
            Cardinality(PassingSignals(gate_row, config)) >= config.gate_signals_required)

C1_Witness ==
    /\ GateRan
    /\ config.gate_signals_required = 2
    /\ Cardinality(PassingSignals(gate_row, config)) = 2
    /\ gate.passed

(* C10: with exactly gate_signals_required signals passing the result is   *)
(* passed and borderline; with more than that it is not borderline.        *)
C10_BorderlineExactlyAtRequired ==
    GateRan =>
        LET n == Cardinality(PassingSignals(gate_row, config))
        IN  /\ (n = config.gate_signals_required => gate.passed /\ gate.borderline)
            /\ (n > config.gate_signals_required => ~ gate.borderline)

C10_Witness ==
    /\ GateRan
    /\ config.gate_signals_required = 2
    /\ Cardinality(PassingSignals(gate_row, config)) = 3
    /\ gate.passed /\ ~ gate.borderline

----------------------------------------------------------------------------
(* metrics/gate.py: evaluate_all_projects                                  *)

gate_sort_before_mut(x, y) ==
    RatLT(y.criticality.percentile, x.criticality.percentile)

(* sort_key(x) < sort_key(y): (0, -pct) for a failed result,               *)
(* (1, 0 if borderline else 1, -pct) for a passed one.                     *)
gate_sort_before(x, y) ==
    IF ~ x.passed
    THEN y.passed \/ RatLT(y.criticality.percentile, x.criticality.percentile)
    ELSE /\ y.passed
         /\ \/ (x.borderline /\ ~ y.borderline)
            \/ /\ x.borderline = y.borderline
               /\ RatLT(y.criticality.percentile, x.criticality.percentile)

(* results.sort(key=sort_key): stable.                                     *)
RECURSIVE sort_gate_results(_)
sort_gate_results(results) ==
    IF results = <<>> THEN <<>>
    ELSE LET e    == Head(results)
             rest == sort_gate_results(Tail(results))
             k    == Cardinality({ i \in 1..Len(rest) : gate_sort_before(rest[i], e) })
         IN  SubSeq(rest, 1, k) \o <<e>> \o SubSeq(rest, k + 1, Len(rest))

evaluate_all_projects(df, cfg) ==
    sort_gate_results([ i \in 1..Len(df) |-> evaluate_project(df[i], cfg) ])

(* The call evaluate_all_projects(df_scores, config).                      *)
EvaluateAllProjects(next) ==
    /\ pc = "evaluate_all_projects"
    /\ gate_results' = evaluate_all_projects(df_scores, config)
    /\ pc' = next
    /\ stages' = Append(stages, pc)
    /\ UNCHANGED <<config, G, G_active, dormant, crit, crit_pcts, decay, pony,
                   gate_row, gate, mds, kci, df_projects, fer>>
    /\ UNCHANGED <<sources, df_scores, adopt_scores, G_und, kcores, bridges,
                   snapshot, threads>>
    /\ UNCHANGED io

(* One row of df_scores.                                                   *)
GateRow(project, crit_pct, hhi10, adoption) ==
    [ project |-> project, criticality_raw |-> 0, criticality_pct |-> crit_pct,
      hhi |-> hhi10, top_contributor |-> "alice",
      top_contributor_share |-> Rat(1, 2), adoption_score |-> adoption ]

BatchRows ==
    { GateRow("pkg", cp, h, ad) : <<cp, h, ad>> \in
        { Rat(0, 1), Rat(100, 2), Rat(300, 4) } \X {0, 60000} \X { Rat(0, 1), Rat(100, 1) } }

InitBatch ==
    /\ pc = "evaluate_all_projects"
    /\ config \in { [DEFAULT_CONFIG EXCEPT !.gate_signals_required = r] : r \in {1, 2, 3} }
    /\ sources = EmptyMap /\ adopt_scores = EmptyMap /\ G_und = EmptyGraph
    /\ kcores = EmptyMap /\ bridges = {} /\ snapshot = EmptyMap
    /\ stages = <<>> /\ threads = EmptyMap
    /\ IoUnused
    /\ df_scores \in UNION { [1..n -> BatchRows] : n \in 0..MaxRows }
    /\ gate_results = <<>>
    /\ gate_row = EmptyMap /\ gate = NoGate
    /\ G = EmptyGraph /\ G_active = EmptyGraph /\ dormant = {}
    /\ crit = EmptyMap /\ crit_pcts = EmptyMap /\ decay = EmptyMap
    /\ pony = EmptyMap /\ mds = <<>> /\ kci = <<>>
    /\ df_projects = EmptyMap /\ fer = <<>>

NextBatch == EvaluateAllProjects("done")

SpecBatch == InitBatch /\ [][NextBatch]_vars

BatchRan == pc = "done" /\ Len(gate_results) = Len(df_scores)

(* C11: in the list returned by evaluate_all_projects every failing result *)
(* precedes every passing result, failing results are in non-increasing    *)
(* criticality-percentile order, and among passing results every           *)
(* borderline result precedes every non-borderline one.                    *)
C11_FailedFirstThenBorderline ==
    pc = "done" =>
        /\ Len(gate_results) = Len(df_scores)
        /\ \A i \in 1..Len(gate_results) : \A j \in (i + 1)..Len(gate_results) :
             LET x == gate_results[i]
                 y == gate_results[j]
             IN  /\ ~ (x.passed /\ ~ y.passed)
                 /\ (~ x.passed /\ ~ y.passed) =>
                      RatGE(x.criticality.percentile, y.criticality.percentile)
                 /\ (x.passed /\ y.passed) => ~ (~ x.borderline /\ y.borderline)

(* A batch whose first input row passes confidently and whose last one     *)
(* fails: the result lists the failing one first, then a borderline one.   *)
C11_Witness ==
    /\ BatchRan
    /\ Len(gate_results) = 3
    /\ ~ gate_results[1].passed /\ gate_results[2].passed /\ gate_results[2].borderline
    /\ gate_results[3].passed /\ ~ gate_results[3].borderline
    /\ evaluate_project(df_scores[1], config).passed
    /\ ~ evaluate_project(df_scores[1], config).borderline
    /\ ~ evaluate_project(df_scores[3], config).passed

----------------------------------------------------------------------------
(* metrics/bridges.py                                                      *)

(* nx.Graph().add_edges_from(E): direction is dropped, so an edge is the   *)
(* set of its endpoints; a -> b and b -> a are one edge and a self-loop is *)
(* a one-element set.                                                      *)
undirected(E) == { {p[1], p[2]} : p \in E }

(* The neighbours of u that a depth-first search tries, in node order.     *)
neighbours_from(U, u, order) ==
    SelectSeq(order, LAMBDA v : v # u /\ {u, v} \in U)

(* nx.dfs_labeled_edges: the depth-first forest as [parent, visited].      *)
RECURSIVE dfs_visit(_, _, _, _)
dfs_visit(U, u, ns, st) ==
    IF ns = <<>> THEN st
    ELSE IF Head(ns) \in st.visited
         THEN dfs_visit(U, u, Tail(ns), st)
         ELSE LET v == Head(ns)
                  inner == dfs_visit(U, v, neighbours_from(U, v, NodeOrder),
                                     [ parent  |-> [ n \in DOMAIN st.parent \cup {v} |->
                                                       IF n = v THEN u ELSE st.parent[n] ],
                                       visited |-> st.visited \cup {v} ])
              IN  dfs_visit(U, u, Tail(ns), inner)

RECURSIVE dfs_forest(_, _, _, _)
dfs_forest(U, N, roots, st) ==
    IF roots = <<>> THEN st
    ELSE IF Head(roots) \notin N \/ Head(roots) \in st.visited
         THEN dfs_forest(U, N, Tail(roots), st)
         ELSE dfs_forest(U, N, Tail(roots),
                         dfs_visit(U, Head(roots),
                                   neighbours_from(U, Head(roots), NodeOrder),
                                   [ parent  |-> st.parent,
                                     visited |-> st.visited \cup {Head(roots)} ]))

(* The tree edges on the way from n up to the root of its tree.            *)
RECURSIVE path_up(_, _)
path_up(parent, n) ==
    IF n \notin DOMAIN parent THEN {}
    ELSE {{n, parent[n]}} \cup path_up(parent, parent[n])

chain_of_mut(parent, e) == {e}

(* _build_chain: a non-tree edge and the tree path that closes its cycle.  *)
chain_of(parent, e) ==
    LET a == CHOOSE x \in e : TRUE
        b == IF Cardinality(e) = 1 THEN a ELSE CHOOSE x \in e : x # a
        pa == path_up(parent, a)
        pb == path_up(parent, b)
    IN  {e} \cup ((pa \ pb) \cup (pb \ pa))

(* nx.chain_decomposition, as the set of edges that lie on some chain.     *)
chain_edges(U, N) ==
    LET forest == dfs_forest(U, N, NodeOrder, [parent |-> EmptyMap, visited |-> {}])
        tree == { {n, forest.parent[n]} : n \in DOMAIN forest.parent }
    IN  UNION { chain_of(forest.parent, e) : e \in U \ tree }

(* nx.bridges(G_u): the edges of G_u on no chain.                          *)
nx_bridges(U, N) == U \ chain_edges(U, N)

find_bridge_edges(Ga) == nx_bridges(undirected(dep_edges(Ga)), dep_nodes(Ga))

FindBridgeEdges(next) ==
    /\ pc = "find_bridge_edges"
    /\ bridges' = find_bridge_edges(G_active)
    /\ pc' = next
    /\ stages' = Append(stages, pc)
    /\ UNCHANGED <<config, G, G_active, dormant, crit, crit_pcts, decay, pony,
                   gate_row, gate, mds, kci, df_projects, fer, sources, df_scores,
                   gate_results, adopt_scores, G_und, kcores, snapshot, threads>>
    /\ UNCHANGED io

(* Dependency graphs for the bridge analysis: the sampled depends_on pairs *)
(* and the closing edge c -> a of a directed 3-cycle.                      *)
MaxBridgeEdges == 4

BridgePairs == DepPairs \cup { <<"c", "a">> }

BridgeGraphs ==
    { DepGraph(E, <<"True", 0>>, <<"True", 45>>, <<"False", 200>>, <<"None", NoneVal>>) :
        E \in { F \in SUBSET BridgePairs : Cardinality(F) <= MaxBridgeEdges } }

InitBridges ==
    /\ pc = "find_bridge_edges"
    /\ config = DEFAULT_CONFIG
    /\ G_active \in BridgeGraphs
    /\ G = EmptyGraph /\ dormant = {}
    /\ gate_row = EmptyMap /\ gate = NoGate
    /\ crit = EmptyMap /\ crit_pcts = EmptyMap /\ decay = EmptyMap
    /\ pony = EmptyMap /\ mds = <<>> /\ kci = <<>>
    /\ df_projects = EmptyMap /\ fer = <<>>
    /\ ExtUnused

NextBridges == FindBridgeEdges("done")

SpecBridges == InitBridges /\ [][NextBridges]_vars

BridgesRan == pc = "done" /\ stages = <<"find_bridge_edges">>

(* The undirected dependency graph of Ga: depends_on edges between nodes   *)
(* of type Repo or ExternalRepo, direction dropped.                        *)
DependencyLinks(Ga) ==
    LET N == { n \in Ga.nodes : Ga.attr[n].node_type = "Repo"
                                  \/ Ga.attr[n].node_type = "ExternalRepo" }
    IN  { {f.u, f.v} : f \in { f \in Ga.edges : f.edge_type = "depends_on"
                                                   /\ f.u \in N /\ f.v \in N } }

(* The nodes joined to n by a path of links L.                             *)
RECURSIVE Reach(_, _)
Reach(L, S) ==
    LET T == S \cup UNION { l \in L : l \cap S # {} }
    IN  IF T = S THEN S ELSE Reach(L, T)

(* Removing link l from L disconnects the endpoints of l.                  *)
Disconnects(L, l) ==
    \E a \in l : \E b \in l : b \notin Reach(L \ {l}, {a})

IsChainOfFour(Ga) ==
    DependencyLinks(Ga) = { {"a", "b"}, {"b", "c"}, {"c", "d"} }

IsCycleWithPendant(Ga) ==
    dep_edges(Ga) = { <<"a", "b">>, <<"b", "c">>, <<"c", "a">>, <<"d", "a">> }

----------------------------------------------------------------------------
(* Error handling of the criticality scorers.                              *)

(* C16: on every graph conforming to the data model, unknown               *)
(* days_since_commit included, compute_criticality_scores and              *)
(* compute_decay_criticality return a result and never raise.              *)
C16_NeverRaises == pc # "raised"

----------------------------------------------------------------------------
(* metrics/adoption.py                                                     *)

(* data.get(key, 0) or 0: a missing key, None and 0 all give 0.            *)
signal(d, key) ==
    IF key \notin DOMAIN d THEN 0
    ELSE IF d[key] = NoneVal THEN 0 ELSE d[key]

(* One record per Repo/ExternalRepo node: node -> its three signals.       *)
adoption_records(Ga) ==
    [ n \in dep_nodes(Ga) |->
        [ stars     |-> signal(Ga.attr[n], "stars"),
          forks     |-> signal(Ga.attr[n], "forks"),
          downloads |-> signal(Ga.attr[n], "downloads") ] ]

rank_pct_mut(records, key, n) ==
    LET less == Cardinality({ m \in DOMAIN records : records[m][key] < records[n][key] })
    IN  Rat(100 * 2 * less, 2 * Cardinality(DOMAIN records))

(* Series.rank(pct=True) * 100: the average of the 1-based positions of    *)
(* the values equal to this one, over the number of records.               *)
rank_pct(records, key, n) ==
    LET less == Cardinality({ m \in DOMAIN records : records[m][key] < records[n][key] })
        same == Cardinality({ m \in DOMAIN records : records[m][key] = records[n][key] })
    IN  Rat(100 * (2 * less + same + 1), 2 * Cardinality(DOMAIN records))

(* The mean over the three percentile columns (one common denominator).    *)
adoption_score(records, n) ==
    Rat(rank_pct(records, "stars", n).num + rank_pct(records, "forks", n).num
          + rank_pct(records, "downloads", n).num,
        3 * 2 * Cardinality(DOMAIN records))

(* The adoption_scores dict (empty when there are no records).             *)
adoption_scores_of(Ga) ==
    [ n \in dep_nodes(Ga) |-> adoption_score(adoption_records(Ga), n) ]

write_adoption_score_mut(Ga, n, score) ==
    [ Ga EXCEPT !.attr[n] =
        [ k \in DOMAIN Ga.attr[n] \cup {"adoption_score"} |->
            IF k = "adoption_score" THEN score
            ELSE IF k = "days_since_commit" THEN 0 ELSE Ga.attr[n][k] ] ]

(* G_active.nodes[node_id]["adoption_score"] = score, for one node.        *)
write_adoption_score(Ga, n, score) ==
    [ Ga EXCEPT !.attr[n] =
        [ k \in DOMAIN Ga.attr[n] \cup {"adoption_score"} |->
            IF k = "adoption_score" THEN score ELSE Ga.attr[n][k] ] ]

(* The graph after the write-back loop over the nodes S.                   *)
RECURSIVE write_adoption_scores(_, _, _)
write_adoption_scores(Ga, scores, S) ==
    IF S = {} THEN Ga
    ELSE LET n == CHOOSE x \in S : TRUE
         IN  write_adoption_scores(write_adoption_score(Ga, n, scores[n]), scores, S \ {n})

(* compute_adoption_scores(G_active): the returned dict and the graph it   *)
(* leaves behind.                                                          *)
compute_adoption_scores(Ga) ==
    [ adoption_scores |-> adoption_scores_of(Ga),
      G_active        |-> write_adoption_scores(Ga, adoption_scores_of(Ga), dep_nodes(Ga)) ]

ComputeAdoptionScores(next) ==
    /\ pc = "compute_adoption_scores"
    /\ LET r == compute_adoption_scores(G_active)
       IN  /\ adopt_scores' = r.adoption_scores
           /\ G_active' = r.G_active
    /\ pc' = next
    /\ stages' = Append(stages, pc)
    /\ UNCHANGED <<config, G, dormant, crit, crit_pcts, decay, pony,
                   gate_row, gate, mds, kci, df_projects, fer, sources, df_scores,
                   gate_results, G_und, kcores, bridges, snapshot, threads>>
    /\ UNCHANGED io

----------------------------------------------------------------------------
(* metrics/kcore.py                                                        *)

(* The degree of n in the undirected graph U restricted to the nodes S.    *)
degree_in(U, S, n) == Cardinality({ e \in U : n \in e /\ e \subseteq S /\ e # {n} })

(* nx.core_number: peel a node of least degree, the core number being the  *)
(* largest least degree seen so far.                                       *)
RECURSIVE peel(_, _, _, _)
peel(U, S, k, acc) ==
    IF S = {} THEN acc
    ELSE LET least == CHOOSE d \in 0..Cardinality(S) :
                          /\ \E n \in S : degree_in(U, S, n) = d
                          /\ \A n \in S : degree_in(U, S, n) >= d
             n == CHOOSE m \in S : degree_in(U, S, m) = least
             kk == IF least > k THEN least ELSE k
         IN  peel(U, S \ {n}, kk,
                  [ m \in DOMAIN acc \cup {n} |-> IF m = n THEN kk ELSE acc[m] ])

core_number(U, N) == peel(U, N, 0, EmptyMap)

(* nx.core_number refuses a graph with a self-loop (NetworkXNotImplemented).*)
kcore_raises(Ga) == \E p \in dep_edges(Ga) : p[1] = p[2]

(* G_undirected: the dep_nodes with the attributes copied from G_active    *)
(* and the dep_edges as (u, v), direction being forgotten by its reader.   *)
kcore_graph(Ga) ==
    [ nodes |-> dep_nodes(Ga),
      attr  |-> [ n \in dep_nodes(Ga) |-> Ga.attr[n] ],
      edges |-> undirected(dep_edges(Ga)),
      graph |-> EmptyMap ]

kcore_analysis(Ga) ==
    [ G_undirected |-> kcore_graph(Ga),
      core_numbers |-> core_number(undirected(dep_edges(Ga)), dep_nodes(Ga)) ]

KcoreAnalysis(next) ==
    /\ pc = "kcore_analysis"
    /\ IF kcore_raises(G_active)
       THEN pc' = "raised" /\ UNCHANGED <<G_und, kcores, stages>>
       ELSE /\ pc' = next
            /\ stages' = Append(stages, pc)
            /\ G_und' = kcore_analysis(G_active).G_undirected
            /\ kcores' = kcore_analysis(G_active).core_numbers
    /\ UNCHANGED <<config, G, G_active, dormant, crit, crit_pcts, decay, pony,
                   gate_row, gate, mds, kci, df_projects, fer, sources, df_scores,
                   gate_results, adopt_scores, bridges, snapshot, threads>>
    /\ UNCHANGED io

----------------------------------------------------------------------------
(* graph/builder.py                                                        *)

(* The attributes of a node that add_edge creates for an endpoint that was *)
(* not in the graph: an empty dict (no node_type, nothing truthy).         *)
BareNode == NodeAttr("None", NoneVal, "Missing", "None", "", 0)

(* G.add_node(n, **a) for a node that is not in the graph yet.             *)
add_node(Gf, n, a) ==
    [ Gf EXCEPT !.nodes = @ \cup {n},
                !.attr  = [ m \in Gf.nodes \cup {n} |-> IF m = n THEN a ELSE Gf.attr[m] ] ]

add_edge_mut(Gf, u, v, t, commits) ==
    LET N == Gf.nodes \cup {u, v}
    IN  [ Gf EXCEPT !.nodes = N,
                    !.attr  = [ m \in N |-> IF m \in Gf.nodes THEN Gf.attr[m] ELSE BareNode ],
                    !.edges = { e \in @ : e.u # u } \cup { Edge(u, v, t, commits) } ]

(* G.add_edge(u, v, edge_type=t, ...): missing endpoints are created bare, *)
(* and an edge already joining u to v has its attributes overwritten (a    *)
(* commits value survives when the new attributes carry none).             *)
add_edge(Gf, u, v, t, commits) ==
    LET N == Gf.nodes \cup {u, v}
        old == { e \in Gf.edges : e.u = u /\ e.v = v }
        c == IF commits # NoneVal \/ old = {} THEN commits
             ELSE (CHOOSE e \in old : TRUE).commits
    IN  [ Gf EXCEPT !.nodes = N,
                    !.attr  = [ m \in N |-> IF m \in Gf.nodes THEN Gf.attr[m] ELSE BareNode ],
                    !.edges = (@ \ old) \cup { Edge(u, v, t, c) } ]

(* difflib.SequenceMatcher(None, s.lower(), t.lower()).ratio() on the      *)
(* sampled titles: 2 * matches / total length.                             *)
ratio(s, t) ==
    CASE s = t -> Rat(1, 1)
      [] s = "Pq" /\ t \in {"P", "Q"} -> Rat(2, 3)
      [] s = "Pxx" /\ t = "P" -> Rat(2, 4)
      [] OTHER -> Rat(0, 1)

(* _fuzzy_match_project: the first title of the best ratio, or "" (None).  *)
RECURSIVE best_match(_, _, _, _)
best_match(s, titles, best_title, best_ratio) ==
    IF titles = <<>> THEN [title |-> best_title, ratio |-> best_ratio]
    ELSE IF RatLT(best_ratio, ratio(s, Head(titles)))
         THEN best_match(s, Tail(titles), Head(titles), ratio(s, Head(titles)))
         ELSE best_match(s, Tail(titles), best_title, best_ratio)

fuzzy_match_project(s, titles) ==
    LET b == best_match(s, titles, "", Rat(0, 1))
    IN  IF RatGE(b.ratio, Rat(6, 10)) THEN b.title ELSE ""

(* The Project rows: one node per non-empty title.                         *)
RECURSIVE add_projects(_, _)
add_projects(Gf, rows) ==
    IF rows = <<>> THEN Gf
    ELSE IF Head(rows).title = "" THEN add_projects(Gf, Tail(rows))
         ELSE add_projects(
                  IF Head(rows).title \in Gf.nodes
                  THEN [ Gf EXCEPT !.attr[Head(rows).title].total_awarded_usd =
                                       Head(rows).total_awarded_usd ]
                  ELSE add_node(Gf, Head(rows).title,
                                NodeAttr("Project", NoneVal, "Missing", "None", "",
                                         Head(rows).total_awarded_usd)),
                  Tail(rows))

project_titles(rows) ==
    LET kept == SelectSeq(rows, LAMBDA r : r.title # "")
    IN  [ i \in 1..Len(kept) |-> kept[i].title ]

(* The Repo rows: one node per github_url, the first row of a URL winning; *)
(* active and days_since_commit start as None.  The submission title is    *)
(* kept beside the graph for the belongs_to pass.                          *)
RECURSIVE add_repos(_, _, _)
add_repos(Gf, rows, titles) ==
    IF rows = <<>> THEN [G |-> Gf, submission_title |-> titles]
    ELSE LET r == Head(rows)
         IN  IF r.github_url = "" \/ r.github_url \in DOMAIN titles
             THEN add_repos(Gf, Tail(rows), titles)
             ELSE add_repos(add_node(Gf, r.github_url,
                                     NodeAttr("Repo", NoneVal, "Missing", "None", "",
                                              r.total_awarded_usd)),
                            Tail(rows),
                            [ u \in DOMAIN titles \cup {r.github_url} |->
                                IF u = r.github_url THEN r.submission_title ELSE titles[u] ])

(* The belongs_to pass over the Repo nodes S.                              *)
RECURSIVE add_belongs_to(_, _, _, _)
add_belongs_to(Gf, S, submission, titles) ==
    IF S = {} THEN Gf
    ELSE LET n == CHOOSE x \in S : TRUE
             match == fuzzy_match_project(submission[n], titles)
         IN  add_belongs_to(
                 IF submission[n] = "" \/ match = "" THEN Gf
                 ELSE add_edge(Gf, n, match, "belongs_to", NoneVal),
                 S \ {n}, submission, titles)

build_graph_from_csv(src) ==
    LET with_projects == add_projects(EmptyGraph, src.projects)
        with_repos == add_repos(with_projects, src.repos, EmptyMap)
    IN  add_belongs_to(with_repos.G, DOMAIN with_repos.submission_title,
                       with_repos.submission_title, project_titles(src.projects))

(* The dependency-edge loop of enrich_graph_with_ingestion.                *)
RECURSIVE add_dep_edges(_, _)
add_dep_edges(Gf, es) ==
    IF es = <<>> THEN Gf
    ELSE LET e == Head(es)
             external == NodeAttr("ExternalRepo", NoneVal, "Missing", "None", "", 0)
             g1 == IF e.from_repo \in Gf.nodes THEN Gf
                   ELSE add_node(Gf, e.from_repo, external)
             g2 == IF e.to_repo \in g1.nodes THEN g1
                   ELSE add_node(g1, e.to_repo, external)
         IN  IF e.from_repo = "" \/ e.to_repo = ""
             THEN add_dep_edges(Gf, Tail(es))
             ELSE add_dep_edges(add_edge(g2, e.from_repo, e.to_repo, "depends_on", NoneVal),
                                Tail(es))

(* The contributor-edge loop.                                              *)
RECURSIVE add_contrib_edges(_, _)
add_contrib_edges(Gf, es) ==
    IF es = <<>> THEN Gf
    ELSE LET e == Head(es)
             g1 == IF e.contributor \in Gf.nodes THEN Gf
                   ELSE add_node(Gf, e.contributor,
                                 NodeAttr("Contributor", NoneVal, "Missing", "True", "", 0))
         IN  IF e.contributor = "" \/ e.repo = ""
             THEN add_contrib_edges(Gf, Tail(es))
             ELSE add_contrib_edges(
                      add_edge(g1, e.contributor, e.repo, "contributed_to", e.commits),
                      Tail(es))

(* The adoption-data loop: stars, forks and downloads of the nodes that    *)
(* are in the graph.                                                       *)
set_adoption(Gf, data) ==
    [ Gf EXCEPT !.attr = [ n \in Gf.nodes |->
        IF n \notin DOMAIN data THEN Gf.attr[n]
        ELSE [ k \in DOMAIN Gf.attr[n] \cup {"stars", "forks", "downloads"} |->
                 IF k \in {"stars", "forks", "downloads"} THEN data[n][k]
                 ELSE Gf.attr[n][k] ] ] ]

(* The activity-data loop: days_since_commit, archived and, when days is   *)
(* known, active.                                                          *)
set_activity(Gf, data) ==
    [ Gf EXCEPT !.attr = [ n \in Gf.nodes |->
        IF n \notin DOMAIN data THEN Gf.attr[n]
        ELSE [ Gf.attr[n] EXCEPT
                 !.days_since_commit = data[n].days_since_commit,
                 !.archived = data[n].archived,
                 !.active = builder_active(data[n].days_since_commit,
                                           data[n].archived, @) ] ] ]

enrich_graph_with_ingestion(Gf, r) ==
    set_activity(
        set_adoption(
            add_contrib_edges(add_dep_edges(Gf, r.dep_edges), r.contrib_edges),
            r.adoption_data),
        r.activity_data)

BuildGraphFromCsv(next) ==
    /\ pc = "build_graph_from_csv"
    /\ G' = build_graph_from_csv(sources)
    /\ pc' = next
    /\ stages' = Append(stages, pc)
    /\ UNCHANGED <<config, G_active, dormant, crit, crit_pcts, decay, pony,
                   gate_row, gate, mds, kci, df_projects, fer, ext>>
    /\ UNCHANGED io

(* Sampled CSV files.  Project titles are "P" and "Q"; repository URLs are *)
(* "a", "b" and "c" (no URL equals a title); a blank title or URL is "".   *)
ProjectRow(title, usd) == [title |-> title, total_awarded_usd |-> usd]

RepoRow(url, submission_title) ==
    [github_url |-> url, submission_title |-> submission_title, total_awarded_usd |-> 0]

CsvSources ==
    { [projects |-> ps, repos |-> rs] : <<ps, rs>> \in
        { <<>>,
          << ProjectRow("P", 100) >>,
          << ProjectRow("P", 100), ProjectRow("", 50), ProjectRow("Q", 200) >>,
          << ProjectRow("P", 100), ProjectRow("Q", 0), ProjectRow("P", 300) >> }
        \X
        { <<>>,
          << RepoRow("a", "P") >>,
          << RepoRow("a", "Pq"), RepoRow("b", "Q") >>,
          << RepoRow("a", "P"), RepoRow("", "P"), RepoRow("b", "Pxx"), RepoRow("a", "Q") >>,
          << RepoRow("a", ""), RepoRow("b", "P"), RepoRow("c", "Q") >> } }

(* Sampled ingestion results.  "d" is a package outside the CSV files,     *)
(* "x" and "y" are contributor names, "z" is a URL no CSV row has.         *)
DepEdge(from_repo, to_repo) == [from_repo |-> from_repo, to_repo |-> to_repo]

ContribEdge(contributor, repo, commits) ==
    [contributor |-> contributor, repo |-> repo, commits |-> commits]

Signals(stars, forks, downloads) ==
    [stars |-> stars, forks |-> forks, downloads |-> downloads]

Activity(days, archived) == [days_since_commit |-> days, archived |-> archived]

DepEdgeLists ==
    { <<>>,
      << DepEdge("d", "a"), DepEdge("a", "b") >>,
      << DepEdge("b", "a"), DepEdge("a", ""), DepEdge("b", "c") >>,
      << DepEdge("a", "a"), DepEdge("x", "a") >> }

ContribEdgeLists ==
    { <<>>,
      << ContribEdge("x", "a", 3), ContribEdge("y", "a", 1), ContribEdge("x", "b", 2) >>,
      << ContribEdge("x", "a", 4), ContribEdge("", "b", 1), ContribEdge("y", "b", 0) >>,
      << ContribEdge("x", "z", 1), ContribEdge("y", "d", 2) >> }

AdoptionData ==
    { EmptyMap,
      [ n \in {"a", "b", "q"} |->
          CASE n = "a" -> Signals(5, 1, 0)
            [] n = "b" -> Signals(5, NoneVal, 7)
            [] n = "q" -> Signals(9, 9, 9) ] }

ActivityData ==
    { EmptyMap,
      [ n \in {"a", "b", "d"} |->
          CASE n = "a" -> Activity(5, "False")
            [] n = "b" -> Activity(200, "False")
            [] n = "d" -> Activity(7, "False") ],
      [ n \in {"a", "b", "d"} |->
          CASE n = "a" -> Activity(90, "True")
            [] n = "b" -> Activity(45, "False")
            [] n = "d" -> Activity(NoneVal, "False") ] }

IngestionResults ==
    { [dep_edges |-> de, contrib_edges |-> ce, adoption_data |-> ad, activity_data |-> ac] :
        <<de, ce, ad, ac>> \in DepEdgeLists \X ContribEdgeLists \X AdoptionData \X ActivityData }

(* One call enrich_graph_with_ingestion(G, dep_edges, contrib_edges,       *)
(* adoption_data, activity_data), the four inputs being any sampled ones.  *)
EnrichGraphWithIngestion(next) ==
    /\ pc = "enrich_graph_with_ingestion"
    /\ \E r \in IngestionResults : G' = enrich_graph_with_ingestion(G, r)
    /\ pc' = next
    /\ stages' = Append(stages, pc)
    /\ UNCHANGED <<config, G_active, dormant, crit, crit_pcts, decay, pony,
                   gate_row, gate, mds, kci, df_projects, fer, ext>>
    /\ UNCHANGED io

MaxEnrichments == 2    \* calls of enrich_graph_with_ingestion on one graph

InitBuilder ==
    /\ pc = "build_graph_from_csv"
    /\ config = DEFAULT_CONFIG
    /\ sources \in CsvSources
    /\ G = EmptyGraph /\ G_active = EmptyGraph /\ dormant = {}
    /\ gate_row = EmptyMap /\ gate = NoGate
    /\ crit = EmptyMap /\ crit_pcts = EmptyMap /\ decay = EmptyMap
    /\ pony = EmptyMap /\ mds = <<>> /\ kci = <<>>
    /\ df_projects = EmptyMap /\ fer = <<>>
    /\ df_scores = <<>> /\ gate_results = <<>>
    /\ adopt_scores = EmptyMap /\ G_und = EmptyGraph /\ kcores = EmptyMap
    /\ bridges = {} /\ snapshot = EmptyMap /\ stages = <<>> /\ threads = EmptyMap
    /\ IoUnused

NextBuilder ==
    \/ BuildGraphFromCsv("enrich_graph_with_ingestion")
    \/ /\ Len(stages) <= MaxEnrichments
       /\ EnrichGraphWithIngestion("enrich_graph_with_ingestion")

SpecBuilder == InitBuilder /\ [][NextBuilder]_vars

GraphBuilt == pc # "build_graph_from_csv"

TypeOf(Gf, n) == Gf.attr[n].node_type

BelongsToTyped(Gf) ==
    \A e \in Gf.edges : e.edge_type = "belongs_to" =>
        TypeOf(Gf, e.u) = "Repo" /\ TypeOf(Gf, e.v) = "Project"

DependsOnTyped(Gf) ==
    \A e \in Gf.edges : e.edge_type = "depends_on" =>
        /\ TypeOf(Gf, e.u) \in {"Repo", "ExternalRepo"}
        /\ TypeOf(Gf, e.v) \in {"Repo", "ExternalRepo"}

ContributedToTyped(Gf) ==
    \A e \in Gf.edges : e.edge_type = "contributed_to" =>
        TypeOf(Gf, e.u) = "Contributor" /\ TypeOf(Gf, e.v) = "Repo"

(* C18: in every graph produced by build_graph_from_csv followed by any    *)
(* sequence of enrich_graph_with_ingestion calls, every belongs_to edge    *)
(* goes from a Repo to a Project, every depends_on edge joins nodes of     *)
(* type Repo or ExternalRepo, and every contributed_to edge goes from a    *)
(* Contributor to a Repo.                                                  *)
C18_EdgeEndpointsTyped ==
    GraphBuilt => BelongsToTyped(G) /\ DependsOnTyped(G) /\ ContributedToTyped(G)

----------------------------------------------------------------------------
(* reports/governance_report.py                                            *)

Max(S) == IF S = {} THEN 0 ELSE CHOOSE m \in S : \A x \in S : x <= m

CountOf(s, Test(_)) == Cardinality({ i \in 1..Len(s) : Test(s[i]) })

(* generate_governance_report: the integer fields of the EcosystemSnapshot *)
(* (the rounded means and medians, the top-N lists and the narrative are   *)
(* left out); the gate pass rate is kept as passed and total.              *)
generate_governance_report(Ga, gate_res, mds_entries_, kci_results, pony_results, core_numbers, bridge_list) ==
    [ total_active_projects |->
          Cardinality({ n \in Ga.nodes : Ga.attr[n].node_type = "Project" }),
      total_active_repos |->
          Cardinality({ n \in Ga.nodes : Ga.attr[n].node_type = "Repo"
                                          /\ IsMarkedActive(Ga.attr[n]) }),
      total_dependency_edges |->
          Cardinality({ e \in Ga.edges : e.edge_type = "depends_on" }),
      max_kcore |-> Max({ core_numbers[n] : n \in DOMAIN core_numbers }),
      bridge_edge_count |-> Cardinality(bridge_list),
      pony_flagged |->
          Cardinality({ r \in DOMAIN pony_results : pony_results[r].pony_factor = 1 }),
      gate_passed |-> CountOf(gate_res, LAMBDA r : r.passed),
      gate_total |-> Len(gate_res),
      gate_borderline_count |-> CountOf(gate_res, LAMBDA r : r.borderline),
      maintenance_debt_surface_size |-> Len(mds_entries_),
      keystone_contributor_count |-> Len(kci_results) ]

GenerateGovernanceReport(next) ==
    /\ pc = "generate_governance_report"
    /\ snapshot' = generate_governance_report(G_active, gate_results, mds, kci, pony,
                                              kcores, bridges)
    /\ pc' = next
    /\ stages' = Append(stages, pc)
    /\ UNCHANGED <<config, G, G_active, dormant, crit, crit_pcts, decay, pony,
                   gate_row, gate, mds, kci, df_projects, fer, sources, df_scores,
                   gate_results, adopt_scores, G_und, kcores, bridges, threads>>
    /\ UNCHANGED io

----------------------------------------------------------------------------
(* pipeline.py                                                             *)

(* The orders in which a set can be iterated.                              *)
Orders(S) ==
    { f \in [1..Cardinality(S) -> S] : \A i, j \in 1..Cardinality(S) : f[i] = f[j] => i = j }

(* The row appended for one node of set(crit.keys()) & set(pony.keys()).   *)
gate_row_of(node, scores, ranks, pony_results, adoption) ==
    [ project               |-> node,
      criticality_raw       |-> scores[node],
      criticality_pct       |-> IF node \in DOMAIN ranks THEN ranks[node] ELSE Rat(0, 1),
      hhi                   |-> pony_results[node].hhi,
      top_contributor       |-> pony_results[node].top_contributor,
      top_contributor_share |-> pony_results[node].top_contributor_share,
      adoption_score        |-> IF node \in DOMAIN adoption THEN adoption[node]
                                ELSE Rat(0, 1) ]

(* Step 9 up to the gate call: the rows, in the iteration order of the set *)
(* intersection; with no rows evaluate_all_projects is not called and      *)
(* gate_results is the empty list.                                         *)
GateRows(next, next_if_empty) ==
    /\ pc = "gate_rows"
    /\ \E order \in Orders(DOMAIN crit \cap DOMAIN pony) :
           df_scores' = [ i \in 1..Len(order) |->
                            gate_row_of(order[i], crit, crit_pcts, pony, adopt_scores) ]
    /\ gate_results' = <<>>
    /\ pc' = IF DOMAIN crit \cap DOMAIN pony = {} THEN next_if_empty ELSE next
    /\ stages' = Append(stages, pc)
    /\ UNCHANGED <<config, G, G_active, dormant, crit, crit_pcts, decay, pony,
                   gate_row, gate, mds, kci, df_projects, fer, sources,
                   adopt_scores, G_und, kcores, bridges, snapshot, threads>>
    /\ UNCHANGED io

(* Step 12 up to the scorer call: title -> total_awarded_usd of the        *)
(* Project nodes of G_active.                                              *)
project_data(Ga) ==
    [ n \in { m \in Ga.nodes : Ga.attr[m].node_type = "Project" } |->
        Ga.attr[n].total_awarded_usd ]

ProjectData(next) ==
    /\ pc = "project_data"
    /\ df_projects' = project_data(G_active)
    /\ pc' = next
    /\ stages' = Append(stages, pc)
    /\ UNCHANGED <<config, G, G_active, dormant, crit, crit_pcts, decay, pony,
                   gate_row, gate, mds, kci, fer, ext>>
    /\ UNCHANGED io

PipelineOrder_mut ==
    << "build_graph_from_csv", "enrich_graph_with_ingestion",
       "active_subgraph_projection",
       "compute_criticality_scores", "compute_percentile_ranks",
       "compute_pony_factors",
       "gate_rows", "evaluate_all_projects",
       "compute_adoption_scores", "kcore_analysis", "find_bridge_edges",
       "compute_decay_criticality",
       "compute_maintenance_debt_surface", "compute_keystone_contributors",
       "project_data", "compute_funding_efficiency",
       "generate_governance_report", "done" >>

(* The calls of run_full_pipeline in program order.                        *)
PipelineOrder ==
    << "build_graph_from_csv", "enrich_graph_with_ingestion",
       "active_subgraph_projection",
       "compute_criticality_scores", "compute_percentile_ranks",
       "compute_pony_factors", "compute_adoption_scores",
       "kcore_analysis", "find_bridge_edges",
       "compute_decay_criticality",
       "gate_rows", "evaluate_all_projects",
       "compute_maintenance_debt_surface", "compute_keystone_contributors",
       "project_data", "compute_funding_efficiency",
       "generate_governance_report", "done" >>

(* The call that follows call s.                                           *)
after(s) ==
    LET i == CHOOSE k \in 1..Len(PipelineOrder) : PipelineOrder[k] = s
    IN  PipelineOrder[i + 1]

PipelineConfigs ==
    { DEFAULT_CONFIG,
      [DEFAULT_CONFIG EXCEPT !.active_window_days = 30, !.gate_signals_required = 1] }

InitPipeline ==
    /\ pc = "build_graph_from_csv"
    /\ config \in PipelineConfigs
    /\ sources \in CsvSources
    /\ G = EmptyGraph /\ G_active = EmptyGraph /\ dormant = {}
    /\ gate_row = EmptyMap /\ gate = NoGate
    /\ crit = EmptyMap /\ crit_pcts = EmptyMap /\ decay = EmptyMap
    /\ pony = EmptyMap /\ mds = <<>> /\ kci = <<>>
    /\ df_projects = EmptyMap /\ fer = <<>>
    /\ df_scores = <<>> /\ gate_results = <<>>
    /\ adopt_scores = EmptyMap /\ G_und = EmptyGraph /\ kcores = EmptyMap
    /\ bridges = {} /\ snapshot = EmptyMap /\ stages = <<>> /\ threads = EmptyMap
    /\ IoUnused

(* run_full_pipeline: the enrichment is skipped when there is neither an   *)
(* ingestion result nor a cached edge list.                                *)
NextPipeline ==
    \/ BuildGraphFromCsv(after(pc))
    \/ BuildGraphFromCsv(after(after(pc)))
    \/ EnrichGraphWithIngestion(after(pc))
    \/ Projection(after(pc))
    \/ Criticality(after(pc))
    \/ PercentileRanks(after(pc))
    \/ PonyFactors(after(pc))
    \/ ComputeAdoptionScores(after(pc))
    \/ KcoreAnalysis(after(pc))
    \/ FindBridgeEdges(after(pc))
    \/ DecayCriticality(after(pc))
    \/ GateRows(after(pc), after(after(pc)))
    \/ EvaluateAllProjects(after(pc))
    \/ MaintenanceDebt(after(pc))
    \/ KeystoneContributors(after(pc))
    \/ ProjectData(after(pc))
    \/ FundingEfficiency(after(pc))
    \/ GenerateGovernanceReport(after(pc))

SpecPipeline == InitPipeline /\ [][NextPipeline]_vars

(* The stage of the control flow that a call belongs to.                   *)
StageOf(s) ==
    CASE s \in {"build_graph_from_csv", "enrich_graph_with_ingestion"} -> 1
      [] s = "active_subgraph_projection" -> 2
      [] s \in {"compute_criticality_scores", "compute_percentile_ranks",
                "compute_pony_factors", "compute_adoption_scores"} -> 3
      [] s \in {"kcore_analysis", "find_bridge_edges"} -> 4
      [] s = "compute_decay_criticality" -> 5
      [] s \in {"gate_rows", "evaluate_all_projects"} -> 6
      [] s \in {"compute_maintenance_debt_surface", "compute_keystone_contributors",
                "project_data", "compute_funding_efficiency"} -> 7
      [] s = "generate_governance_report" -> 8

(* The calls whose results a call takes as arguments.                      *)
Consumes(s) ==
    CASE s = "build_graph_from_csv" -> {}
      [] s = "enrich_graph_with_ingestion" -> {"build_graph_from_csv"}
      [] s = "active_subgraph_projection" -> {"build_graph_from_csv"}
      [] s \in {"compute_criticality_scores", "compute_pony_factors",
                "compute_adoption_scores", "kcore_analysis", "find_bridge_edges",
                "project_data"} -> {"active_subgraph_projection"}
      [] s = "compute_percentile_ranks" -> {"compute_criticality_scores"}
      [] s = "compute_decay_criticality" ->
             {"active_subgraph_projection", "compute_criticality_scores"}
      [] s = "gate_rows" ->
             {"compute_criticality_scores", "compute_percentile_ranks",
              "compute_pony_factors", "compute_adoption_scores"}
      [] s = "evaluate_all_projects" -> {"gate_rows"}
      [] s \in {"compute_maintenance_debt_surface", "compute_keystone_contributors"} ->
             {"active_subgraph_projection", "compute_criticality_scores",
              "compute_pony_factors"}
      [] s = "compute_funding_efficiency" ->
             {"active_subgraph_projection", "compute_criticality_scores",
              "compute_pony_factors", "project_data"}
      [] s = "generate_governance_report" ->
             {"active_subgraph_projection", "gate_rows",
              "compute_maintenance_debt_surface", "compute_keystone_contributors",
              "compute_funding_efficiency", "compute_pony_factors",
              "compute_criticality_scores", "kcore_analysis", "find_bridge_edges"}

Completed == { stages[i] : i \in 1..Len(stages) }

(* The projection of the graph that was built, whatever G_active holds.    *)
Projected == active_subgraph_projection(G, config).G_active

(* The same graph but for the adoption_score annotations.                  *)
SameButAnnotations(A, B) ==
    /\ A.nodes = B.nodes /\ A.edges = B.edges
    /\ \A n \in A.nodes : \A k \in (DOMAIN A.attr[n] \cup DOMAIN B.attr[n]) \ {"adoption_score"} :
           k \in DOMAIN A.attr[n] /\ k \in DOMAIN B.attr[n] /\ A.attr[n][k] = B.attr[n][k]

(* C14: in every run of run_full_pipeline the stages execute in the order  *)
(* graph build (plus optional enrichment), active projection,              *)
(* {criticality, concentration, adoption}, {k-core, bridges}, (decay       *)
(* criticality, which no stage consumes), gate, {maintenance debt,         *)
(* keystone index, funding efficiency}, snapshot; a call is made only      *)
(* after every call whose result it consumes has returned, no call is made *)
(* twice, and every scorer's result is the one computed from the           *)
(* projection of the built graph, never from the unprojected graph.        *)
C14_PipelineOrder ==
    /\ \A i, j \in 1..Len(stages) :
           i < j => stages[i] # stages[j] /\ StageOf(stages[i]) <= StageOf(stages[j])
    /\ \A i \in 1..Len(stages) :
           Consumes(stages[i]) \subseteq { stages[j] : j \in 1..(i - 1) }
    /\ "active_subgraph_projection" \in Completed => SameButAnnotations(G_active, Projected)
    /\ "compute_criticality_scores" \in Completed => crit = compute_criticality_scores(Projected)
    /\ "compute_pony_factors" \in Completed => pony = compute_pony_factors(Projected, config)
    /\ "compute_adoption_scores" \in Completed => adopt_scores = adoption_scores_of(Projected)
    /\ "kcore_analysis" \in Completed =>
           kcores = core_number(undirected(dep_edges(Projected)), dep_nodes(Projected))
    /\ "find_bridge_edges" \in Completed => bridges = find_bridge_edges(Projected)
    /\ "compute_maintenance_debt_surface" \in Completed =>
           mds = compute_maintenance_debt_surface(Projected, crit, pony, config)
    /\ "compute_keystone_contributors" \in Completed =>
           kci = compute_keystone_contributors(Projected, crit, pony)
    /\ "compute_funding_efficiency" \in Completed =>
           fer = compute_funding_efficiency(Projected, crit, pony, project_data(Projected))

(* A complete run in which the projection pruned a repository and a        *)
(* scorer would have computed something else from the unprojected graph.   *)
C14_Witness ==
    /\ pc = "done"
    /\ Len(stages) = Len(PipelineOrder) - 1
    /\ dormant # {}
    /\ crit # compute_criticality_scores(G)
    /\ pony # compute_pony_factors(G, config)

(* Graph B is graph A with nothing removed or changed: the same nodes and  *)
(* edges, every attribute of A with its value, and no new attribute but    *)
(* an adoption_score annotation.                                           *)
OnlyAnnotated(A, B) ==
    /\ B.nodes = A.nodes /\ B.edges = A.edges /\ B.graph = A.graph
    /\ \A n \in A.nodes :
           /\ \A k \in DOMAIN A.attr[n] : k \in DOMAIN B.attr[n] /\ B.attr[n][k] = A.attr[n][k]
           /\ DOMAIN B.attr[n] \ DOMAIN A.attr[n] \subseteq {"adoption_score"}

AfterEnrichment == pc \notin {"build_graph_from_csv", "enrich_graph_with_ingestion"}

(* C17: no operation after enrichment (projection, scorers and analyzers,  *)
(* gate, strategic surfaces, snapshot builder) adds or removes a node or   *)
(* edge of the graph it is given or changes a pre-existing attribute       *)
(* value; the only writes are new score annotations (adoption_score) on    *)
(* node attributes.                                                        *)
C17_OnlyAnnotationsWritten ==
    [][ AfterEnrichment =>
          /\ G' = G
          /\ pc # "active_subgraph_projection" => OnlyAnnotated(G_active, G_active') ]_vars

(* The adoption scorer has annotated a projected graph that has edges, and *)
(* the calls after it have run.                                            *)
C17_Witness ==
    /\ pc = "done"
    /\ G_active.edges # {}
    /\ \E n \in G_active.nodes : "adoption_score" \in DOMAIN G_active.attr[n]
    /\ \E n \in G_active.nodes : "adoption_score" \notin DOMAIN G.attr[n]

----------------------------------------------------------------------------
(* Recalibration: the gate under configurations that move the HHI tier     *)
(* boundaries.                                                             *)

RecalibratedConfigs ==
    { [DEFAULT_CONFIG EXCEPT !.hhi_concentrated = c, !.hhi_critical = k,
                             !.pony_pass_hhi_max = h]
        : <<c, k, h>> \in {2500, 3000} \X {5000, 6000} \X {2500, 5000} }

InitRecalibrated ==
    /\ pc = "evaluate_project"
    /\ config \in RecalibratedConfigs
    /\ gate_row \in [ project : {"pkg"},
                      criticality_raw : {0},
                      criticality_pct : { Rat(0, 1), Rat(100, 2) },
                      hhi : HhiInputs \cup {27000, 55000},
                      top_contributor : {"alice"},
                      top_contributor_share : {Rat(1, 2)},
                      adoption_score : { Rat(0, 1), Rat(100, 2) } ]
    /\ gate = NoGate
    /\ G = EmptyGraph /\ G_active = EmptyGraph /\ dormant = {}
    /\ crit = EmptyMap /\ crit_pcts = EmptyMap /\ decay = EmptyMap
    /\ pony = EmptyMap /\ mds = <<>> /\ kci = <<>>
    /\ df_projects = EmptyMap /\ fer = <<>>
    /\ ExtUnused

SpecRecalibrated == InitRecalibrated /\ [][NextGate]_vars

(* The HHI tier of a value (in tenths) under the tier boundaries of cfg.   *)
ConfiguredTier(hhi10, cfg) ==
    IF hhi10 >= 10 * cfg.hhi_critical THEN "critical"
    ELSE IF hhi10 >= 10 * cfg.hhi_concentrated THEN "concentrated"
    ELSE "moderate"

(* C19: every numeric threshold applied by a core component is read from   *)
(* the PGAtlasConfig in use and none is hard-coded; here, the HHI tier     *)
(* that the gate reports for a failed pony-factor signal is the tier under *)
(* the configured boundaries hhi_concentrated and hhi_critical.            *)
C19_ThresholdsFromConfig ==
    (GateRan /\ ~ gate.pony_factor.passed) =>
        gate.pony_factor.narrative.risk_tier = ConfiguredTier(gate_row.hhi, config)

----------------------------------------------------------------------------
(* The scorers of stage 3 and the analyzers of stage 4 as threads over one *)
(* G_active.  A scorer that only reads attributes no thread writes is one  *)
(* step; compute_adoption_scores writes the graph node by node and         *)
(* kcore_analysis copies the node attributes node by node, so each         *)
(* iteration of those loops is a step.                                     *)

ThreadsAtStart ==
    [ criticality |-> [pc |-> "start"],
      pony        |-> [pc |-> "start"],
      bridges     |-> [pc |-> "start"],
      adoption    |-> [pc |-> "start", scores |-> EmptyMap, rows |-> <<>>],
      kcore       |-> [pc |-> "start", todo |-> {}, G_undirected |-> EmptyGraph] ]

ThreadCriticality ==
    /\ pc = "threads" /\ threads.criticality.pc = "start"
    /\ crit' = compute_criticality_scores(G_active)
    /\ threads' = [threads EXCEPT !.criticality.pc = "done"]
    /\ stages' = Append(stages, "compute_criticality_scores")
    /\ UNCHANGED <<pc, config, G, G_active, dormant, crit_pcts, decay, pony,
                   gate_row, gate, mds, kci, df_projects, fer, sources, df_scores,
                   gate_results, adopt_scores, G_und, kcores, bridges, snapshot>>
    /\ UNCHANGED io

ThreadPony ==
    /\ pc = "threads" /\ threads.pony.pc = "start"
    /\ pony' = compute_pony_factors(G_active, config)
    /\ threads' = [threads EXCEPT !.pony.pc = "done"]
    /\ stages' = Append(stages, "compute_pony_factors")
    /\ UNCHANGED <<pc, config, G, G_active, dormant, crit, crit_pcts, decay,
                   gate_row, gate, mds, kci, df_projects, fer, sources, df_scores,
                   gate_results, adopt_scores, G_und, kcores, bridges, snapshot>>
    /\ UNCHANGED io

ThreadBridges ==
    /\ pc = "threads" /\ threads.bridges.pc = "start"
    /\ bridges' = find_bridge_edges(G_active)
    /\ threads' = [threads EXCEPT !.bridges.pc = "done"]
    /\ stages' = Append(stages, "find_bridge_edges")
    /\ UNCHANGED <<pc, config, G, G_active, dormant, crit, crit_pcts, decay, pony,
                   gate_row, gate, mds, kci, df_projects, fer, sources, df_scores,
                   gate_results, adopt_scores, G_und, kcores, snapshot>>
    /\ UNCHANGED io

(* compute_adoption_scores up to the write-back loop: the records, the     *)
(* ranks and the mean, the rows being in node order.                       *)
ThreadAdoptionRank ==
    /\ pc = "threads" /\ threads.adoption.pc = "start"
    /\ threads' = [threads EXCEPT
                     !.adoption = [ pc     |-> "write",
                                    scores |-> adoption_scores_of(G_active),
                                    rows   |-> SelectSeq(NodeOrder,
                                                 LAMBDA n : n \in dep_nodes(G_active)) ]]
    /\ UNCHANGED <<pc, config, G, G_active, dormant, crit, crit_pcts, decay, pony,
                   gate_row, gate, mds, kci, df_projects, fer, sources, df_scores,
                   gate_results, adopt_scores, G_und, kcores, bridges, snapshot, stages>>
    /\ UNCHANGED io

(* One iteration of the write-back loop.                                   *)
ThreadAdoptionWrite ==
    /\ pc = "threads" /\ threads.adoption.pc = "write"
    /\ threads.adoption.rows # <<>>
    /\ LET n == Head(threads.adoption.rows)
       IN  G_active' = write_adoption_score(G_active, n, threads.adoption.scores[n])
    /\ threads' = [threads EXCEPT !.adoption.rows = Tail(@)]
    /\ UNCHANGED <<pc, config, G, dormant, crit, crit_pcts, decay, pony,
                   gate_row, gate, mds, kci, df_projects, fer, sources, df_scores,
                   gate_results, adopt_scores, G_und, kcores, bridges, snapshot, stages>>
    /\ UNCHANGED io

ThreadAdoptionReturn ==
    /\ pc = "threads" /\ threads.adoption.pc = "write"
    /\ threads.adoption.rows = <<>>
    /\ adopt_scores' = threads.adoption.scores
    /\ threads' = [threads EXCEPT !.adoption.pc = "done"]
    /\ stages' = Append(stages, "compute_adoption_scores")
    /\ UNCHANGED <<pc, config, G, G_active, dormant, crit, crit_pcts, decay, pony,
                   gate_row, gate, mds, kci, df_projects, fer, sources, df_scores,
                   gate_results, G_und, kcores, bridges, snapshot>>
    /\ UNCHANGED io

(* kcore_analysis up to the attribute copy: G_undirected with its nodes    *)
(* (no attributes yet) and edges.                                          *)
ThreadKcoreBuild ==
    /\ pc = "threads" /\ threads.kcore.pc = "start"
    /\ threads' = [threads EXCEPT
                     !.kcore = [ pc   |-> "copy",
                                 todo |-> dep_nodes(G_active),
                                 G_undirected |->
                                     [ nodes |-> dep_nodes(G_active),
                                       attr  |-> [ n \in dep_nodes(G_active) |-> EmptyMap ],
                                       edges |-> undirected(dep_edges(G_active)),
                                       graph |-> EmptyMap ] ]]
    /\ UNCHANGED <<pc, config, G, G_active, dormant, crit, crit_pcts, decay, pony,
                   gate_row, gate, mds, kci, df_projects, fer, sources, df_scores,
                   gate_results, adopt_scores, G_und, kcores, bridges, snapshot, stages>>
    /\ UNCHANGED io

(* One iteration of "for n in dep_nodes: G_undirected.nodes[n].update(     *)
(* G_active.nodes[n])", a set being iterated in any order.                 *)
ThreadKcoreCopy ==
    /\ pc = "threads" /\ threads.kcore.pc = "copy"
    /\ \E n \in threads.kcore.todo :
           threads' = [threads EXCEPT !.kcore.todo = @ \ {n},
                                      !.kcore.G_undirected.attr[n] = G_active.attr[n]]
    /\ UNCHANGED <<pc, config, G, G_active, dormant, crit, crit_pcts, decay, pony,
                   gate_row, gate, mds, kci, df_projects, fer, sources, df_scores,
                   gate_results, adopt_scores, G_und, kcores, bridges, snapshot, stages>>
    /\ UNCHANGED io

ThreadKcoreReturn ==
    /\ pc = "threads" /\ threads.kcore.pc = "copy"
    /\ threads.kcore.todo = {}
    /\ IF kcore_raises(G_active)
       THEN /\ pc' = "raised"
            /\ UNCHANGED <<G_und, kcores, threads, stages>>
       ELSE /\ G_und' = threads.kcore.G_undirected
            /\ kcores' = core_number(threads.kcore.G_undirected.edges,
                                     threads.kcore.G_undirected.nodes)
            /\ threads' = [threads EXCEPT !.kcore.pc = "done"]
            /\ stages' = Append(stages, "kcore_analysis")
            /\ UNCHANGED pc
    /\ UNCHANGED <<config, G, G_active, dormant, crit, crit_pcts, decay, pony,
                   gate_row, gate, mds, kci, df_projects, fer, sources, df_scores,
                   gate_results, adopt_scores, bridges, snapshot>>
    /\ UNCHANGED io

(* All five have returned.                                                 *)
ThreadsJoin ==
    /\ pc = "threads"
    /\ \A t \in DOMAIN threads : threads[t].pc = "done"
    /\ pc' = "done"
    /\ UNCHANGED <<config, G, G_active, dormant, crit, crit_pcts, decay, pony,
                   gate_row, gate, mds, kci, df_projects, fer, ext, stages>>
    /\ UNCHANGED io

(* Active subgraphs shared by the threads: the dependency graph with two   *)
(* or four packages linked, every package retained by the projection.      *)
ThreadGraphs ==
    { DepGraph(E, <<"True", 0>>, <<"True", 45>>, <<"True", 45>>, <<"None", NoneVal>>) :
        E \in { {}, { <<"a", "b">> }, { <<"a", "b">>, <<"b", "c">>, <<"c", "d">> },
                { <<"a", "b">>, <<"b", "c">>, <<"a", "c">>, <<"d", "a">> } } }

InitThreads ==
    /\ pc = "threads"
    /\ config = DEFAULT_CONFIG
    /\ G \in ThreadGraphs
    /\ G_active = active_subgraph_projection(G, config).G_active
    /\ dormant = active_subgraph_projection(G, config).dormant_nodes
    /\ threads = ThreadsAtStart
    /\ IoUnused
    /\ gate_row = EmptyMap /\ gate = NoGate
    /\ crit = EmptyMap /\ crit_pcts = EmptyMap /\ decay = EmptyMap
    /\ pony = EmptyMap /\ mds = <<>> /\ kci = <<>>
    /\ df_projects = EmptyMap /\ fer = <<>>
    /\ sources = EmptyMap /\ df_scores = <<>> /\ gate_results = <<>>
    /\ adopt_scores = EmptyMap /\ G_und = EmptyGraph /\ kcores = EmptyMap
    /\ bridges = {} /\ snapshot = EmptyMap /\ stages = <<>>

NextThreads ==
    \/ ThreadCriticality \/ ThreadPony \/ ThreadBridges
    \/ ThreadAdoptionRank \/ ThreadAdoptionWrite \/ ThreadAdoptionReturn
    \/ ThreadKcoreBuild \/ ThreadKcoreCopy \/ ThreadKcoreReturn
    \/ ThreadsJoin

SpecThreads == InitThreads /\ [][NextThreads]_vars

(* What the five calls return when run one after another on graph Ga, the  *)
(* k-core analysis coming before or after the adoption scorer.             *)
SequentialKcoreGraphs(Ga) ==
    { kcore_graph(Ga), kcore_graph(compute_adoption_scores(Ga).G_active) }

(* C15: running the criticality, concentration and adoption scorers and    *)
(* the k-core and bridge analyzers concurrently on the same active         *)
(* subgraph, in any interleaving, completes without error and yields       *)
(* exactly the outputs of a sequential run.                                *)
C15_ConcurrentEqualsSequential ==
    /\ pc # "raised"
    /\ pc = "done" =>
           /\ crit = compute_criticality_scores(Projected)
           /\ pony = compute_pony_factors(Projected, config)
           /\ adopt_scores = adoption_scores_of(Projected)
           /\ bridges = find_bridge_edges(Projected)
           /\ kcores = kcore_analysis(Projected).core_numbers
           /\ G_und \in SequentialKcoreGraphs(Projected)

----------------------------------------------------------------------------
(* Dependency cycles.                                                      *)

(* The depends_on edges between Repo/ExternalRepo nodes of Ga form one     *)
(* directed cycle: every package on an edge has exactly one dependency and *)
(* one dependent, and the edges hang together.                             *)
IsDependencyCycle(Ga) ==
    LET E == dep_edges(Ga)
        N == { p[1] : p \in E } \cup { p[2] : p \in E }
    IN  /\ E # {}
        /\ \A n \in N : /\ Cardinality({ p \in E : p[1] = n }) = 1
                        /\ Cardinality({ p \in E : p[2] = n }) = 1
        /\ \A n \in N : Reach(undirected(E), {n}) = N

CycleLength(Ga) == Cardinality(dep_edges(Ga))

(* C21: for a dependency cycle of any length (depends_on edges among       *)
(* Repo/ExternalRepo nodes forming a directed cycle), find_bridge_edges    *)
(* returns exactly 0 bridges.                                              *)
C21_CycleHasNoBridges ==
    (BridgesRan /\ IsDependencyCycle(G_active)) => bridges = {}

(* C21 as the code has it: a dependency cycle of three or more packages,   *)
(* or a package depending on itself, has no bridge; two packages that      *)
(* depend on each other are joined by one undirected edge, which is        *)
(* returned as a bridge.                                                   *)
C21_CycleHasNoBridges_Amended ==
    (BridgesRan /\ IsDependencyCycle(G_active)) =>
        IF CycleLength(G_active) = 2
        THEN Cardinality(bridges) = 1
        ELSE bridges = {}

C21_Witness ==
    /\ BridgesRan
    /\ IsDependencyCycle(G_active)
    /\ CycleLength(G_active) = 4
    /\ bridges = {}

----------------------------------------------------------------------------
(* Which repos the pony-factor scorer leaves out.                          *)

RepoNodes(Ga) == { n \in Ga.nodes : Ga.attr[n].node_type = "Repo" }

(* Repo has a recorded contributor: a contributed_to edge into it that     *)
(* carries a commit count.                                                 *)
HasRecordedContributors(Ga, repo) == CommitEdges(Ga, repo) # {}

(* C22: compute_pony_factors returns no entry for a Repo that has no       *)
(* recorded contributors or whose total commit count is zero, and exactly  *)
(* one entry, under its own name, for every other Repo of the input graph; *)
(* nothing but a Repo has an entry.                                        *)
C22_UnscoredReposAbsent ==
    PonyRan =>
        /\ \A repo \in RepoNodes(G_active) :
               IF ~HasRecordedContributors(G_active, repo) \/ TotalCommits(G_active, repo) = 0
               THEN repo \notin DOMAIN pony
               ELSE repo \in DOMAIN pony /\ pony[repo].repo = repo
        /\ DOMAIN pony \subseteq RepoNodes(G_active)

C22_Witness ==
    /\ PonyRan
    /\ ~HasRecordedContributors(G_active, "c")
    /\ HasRecordedContributors(G_active, "b") /\ TotalCommits(G_active, "b") = 0
    /\ HasRecordedContributors(G_active, "a") /\ TotalCommits(G_active, "a") = 1
    /\ DOMAIN pony = {"a"}

----------------------------------------------------------------------------
(* The adoption scorer on its own.                                         *)

(* The adoption signals a node may carry: none at all, zeros, a None, and  *)
(* values that tie or differ between nodes.                                *)
SignalSamples ==
    { EmptyMap, Signals(0, 0, 0), Signals(5, 1, 0), Signals(5, NoneVal, 7),
      Signals(9, 9, 9) }

WithSignals(attrs, sig) ==
    [ k \in DOMAIN attrs \cup DOMAIN sig |-> IF k \in DOMAIN sig THEN sig[k] ELSE attrs[k] ]

(* Active subgraphs of one to three scored nodes (Repos "a" and "b",       *)
(* ExternalRepo "d") and the Project "P", which is not scored.             *)
AdoptionGraph(N, sig) ==
    [ nodes |-> N \cup {"P"},
      attr  |-> [ n \in N \cup {"P"} |->
                    CASE n = "P" -> WithSignals(NodeAttr("Project", NoneVal, "Missing", "True", "", 100),
                                                Signals(9, 9, 9))
                      [] n = "d" -> WithSignals(NodeAttr("ExternalRepo", NoneVal, "Missing", "None", "", 0),
                                                sig[n])
                      [] OTHER   -> WithSignals(NodeAttr("Repo", 10, "False", "True", "P", 0), sig[n]) ],
      edges |-> { Edge(n, "P", "belongs_to", NoneVal) : n \in N \ {"d"} },
      graph |-> EmptyMap ]

AdoptionGraphs ==
    { AdoptionGraph(N, sig) : <<N, sig>> \in
        { <<N, sig>> \in { {"a"}, {"a", "b"}, {"a", "b", "d"} } \X [ {"a", "b", "d"} -> SignalSamples ] :
            \A n \in {"a", "b", "d"} \ N : sig[n] = EmptyMap } }

InitAdoption ==
    /\ pc = "compute_adoption_scores"
    /\ config = DEFAULT_CONFIG
    /\ G_active \in AdoptionGraphs
    /\ G = EmptyGraph /\ dormant = {}
    /\ gate_row = EmptyMap /\ gate = NoGate
    /\ crit = EmptyMap /\ crit_pcts = EmptyMap /\ decay = EmptyMap
    /\ pony = EmptyMap /\ mds = <<>> /\ kci = <<>>
    /\ df_projects = EmptyMap /\ fer = <<>>
    /\ ExtUnused

NextAdoption == ComputeAdoptionScores("done")

SpecAdoption == InitAdoption /\ [][NextAdoption]_vars

AdoptionRan == pc = "done" /\ stages = <<"compute_adoption_scores">>

(* The scored nodes and the value of signal key on node n (0 when the node *)
(* does not carry it).                                                     *)
ScoredNodes(Ga) ==
    { n \in Ga.nodes : Ga.attr[n].node_type = "Repo" \/ Ga.attr[n].node_type = "ExternalRepo" }

SignalOf(Ga, n, key) ==
    IF key \in DOMAIN Ga.attr[n] /\ Ga.attr[n][key] # NoneVal THEN Ga.attr[n][key] ELSE 0

(* The inclusive percentile rank of n for signal key over the scored       *)
(* nodes: the mean of the number of nodes strictly below n plus one and    *)
(* the number of nodes at or below n, as a share of the scored nodes.      *)
PercentileOf(Ga, n, key) ==
    LET below == Cardinality({ m \in ScoredNodes(Ga) : SignalOf(Ga, m, key) < SignalOf(Ga, n, key) })
        upto  == Cardinality({ m \in ScoredNodes(Ga) : SignalOf(Ga, m, key) <= SignalOf(Ga, n, key) })
    IN  Rat(100 * (below + 1 + upto), 2 * Cardinality(ScoredNodes(Ga)))

SignalKeys == {"stars", "forks", "downloads"}

(* C23: for every scored Repo/ExternalRepo node the composite adoption     *)
(* score is the unweighted arithmetic mean of its three per-signal         *)
(* percentile ranks; each rank is an inclusive rank over all scored nodes, *)
(* above 0 and at most 100, so that a lone scored node gets 100 and a node *)
(* with a strictly higher signal never gets a lower percentile for it.     *)
C23_AdoptionIsMeanOfRanks ==
    AdoptionRan =>
        /\ DOMAIN adopt_scores = ScoredNodes(G_active)
        /\ \A n \in ScoredNodes(G_active) :
               LET s  == PercentileOf(G_active, n, "stars")
                   f  == PercentileOf(G_active, n, "forks")
                   dl == PercentileOf(G_active, n, "downloads")
               IN  /\ RatEq(Rat(3 * adopt_scores[n].num, adopt_scores[n].den),
                            Rat(s.num + f.num + dl.num, s.den))
                   /\ \A key \in SignalKeys :
                          /\ RatLT(RatOfInt(0), PercentileOf(G_active, n, key))
                          /\ RatLE(PercentileOf(G_active, n, key), RatOfInt(100))
                   /\ \A key \in SignalKeys : \A m \in ScoredNodes(G_active) :
                          SignalOf(G_active, m, key) < SignalOf(G_active, n, key)
                              => RatLT(PercentileOf(G_active, m, key),
                                       PercentileOf(G_active, n, key))
        /\ Cardinality(ScoredNodes(G_active)) = 1 =>
               \A n \in ScoredNodes(G_active) : RatEq(adopt_scores[n], RatOfInt(100))

(* Three scored nodes with a tie on stars and distinct downloads.          *)
C23_Witness ==
    /\ AdoptionRan
    /\ ScoredNodes(G_active) = {"a", "b", "d"}
    /\ SignalOf(G_active, "a", "stars") = 5 /\ SignalOf(G_active, "b", "stars") = 5
    /\ SignalOf(G_active, "d", "stars") = 9
    /\ SignalOf(G_active, "a", "forks") = 1 /\ SignalOf(G_active, "b", "forks") = 0
    /\ RatEq(adopt_scores["d"], RatOfInt(100))
    /\ RatLT(adopt_scores["b"], adopt_scores["d"])
    /\ G_active.attr["d"]["adoption_score"] = adopt_scores["d"]

C23_LoneNodeWitness ==
    /\ AdoptionRan
    /\ ScoredNodes(G_active) = {"a"}
    /\ RatEq(adopt_scores["a"], RatOfInt(100))

----------------------------------------------------------------------------
(* reports/governance_report.py: compare_snapshots                         *)
(* (metrics/snapshot_compare.py has a function of the same name that       *)
(* returns the deltas and a narrative and classifies no trend.)            *)

(* The five compared fields of an EcosystemSnapshot: the two rates in      *)
(* ten-thousandths (they are rounded to 4 places), mean_hhi in tenths.     *)
Snapshot(pony_rate, hhi10, gate_rate, mds_size, kci_count) ==
    [ pony_factor_rate              |-> pony_rate,
      mean_hhi                      |-> hhi10,
      gate_pass_rate                |-> gate_rate,
      maintenance_debt_surface_size |-> mds_size,
      keystone_contributor_count    |-> kci_count ]

(* "improved" / "degraded" / "" for a delta where lower is better and a    *)
(* change of at most tol does not count.                                   *)
lower_is_better(d, tol) ==
    IF d < 0 - tol THEN "improved" ELSE IF d > tol THEN "degraded" ELSE ""

higher_is_better(d, tol) ==
    IF d > tol THEN "improved" ELSE IF d < 0 - tol THEN "degraded" ELSE ""

fragility_trend_mut(improved, degraded) ==
    IF Len(improved) > Len(degraded) + 1 THEN "improving"
    ELSE IF Len(degraded) > Len(improved) + 1 THEN "degrading"
    ELSE "stable"

(* The overall trend.                                                      *)
fragility_trend(improved, degraded) ==
    IF Len(improved) > Len(degraded) THEN "improving"
    ELSE IF Len(degraded) > Len(improved) THEN "degrading"
    ELSE "stable"

compare_snapshots(a, b) ==
    LET pony_delta == b.pony_factor_rate - a.pony_factor_rate
        hhi_delta  == b.mean_hhi - a.mean_hhi
        gate_delta == b.gate_pass_rate - a.gate_pass_rate
        mds_delta  == b.maintenance_debt_surface_size - a.maintenance_debt_surface_size
        kci_delta  == b.keystone_contributor_count - a.keystone_contributor_count
        verdicts   == << <<"pony_factor_rate", lower_is_better(pony_delta, 100)>>,
                         <<"mean_hhi", lower_is_better(hhi_delta, 500)>>,
                         <<"gate_pass_rate", higher_is_better(gate_delta, 100)>>,
                         <<"maintenance_debt_surface_size", lower_is_better(mds_delta, 0)>>,
                         <<"keystone_contributor_count", lower_is_better(kci_delta, 0)>> >>
        names(v)   == LET hit == SelectSeq(verdicts, LAMBDA p : p[2] = v)
                      IN  [ i \in 1..Len(hit) |-> hit[i][1] ]
        improved   == names("improved")
        degraded   == names("degraded")
    IN  [ metrics_improved       |-> improved,
          metrics_degraded       |-> degraded,
          pony_factor_rate_delta |-> pony_delta,
          mean_hhi_delta         |-> hhi_delta,
          gate_pass_rate_delta   |-> gate_delta,
          mds_size_delta         |-> mds_delta,
          keystone_count_delta   |-> kci_delta,
          fragility_trend        |-> fragility_trend(improved, degraded) ]

CompareSnapshots(next) ==
    /\ pc = "compare_snapshots"
    /\ delta' = compare_snapshots(snapshot_a, snapshot)
    /\ pc' = next
    /\ stages' = Append(stages, pc)
    /\ UNCHANGED <<config, G, G_active, dormant, crit, crit_pcts, decay, pony,
                   gate_row, gate, mds, kci, df_projects, fer, ext,
                   files, proc, snapshot_a, hist>>

(* Snapshots to compare: rates 0.30, 0.305, 0.32 and 0.50, 0.505, 0.52,    *)
(* mean HHI 3000.0, 3040.0, 3100.0, and sizes 0 and 1, so that a field     *)
(* can stay, move within the tolerance and move beyond it.  A rate delta   *)
(* of exactly 0.01 and an HHI delta of exactly 50, whose comparison        *)
(* depends on the rounding of the float subtraction, are not sampled.      *)
SnapshotSamples ==
    { Snapshot(p, h, g, m, k) : <<p, h, g, m, k>> \in
        {3000, 3050, 3200} \X {30000, 30400, 31000} \X {5000, 5050, 5200}
          \X {0, 1} \X {0, 1} }

InitCompare ==
    /\ pc = "compare_snapshots"
    /\ config = DEFAULT_CONFIG
    /\ snapshot_a \in SnapshotSamples
    /\ snapshot \in SnapshotSamples
    /\ files = EmptyMap /\ proc = EmptyMap /\ delta = EmptyMap /\ hist = EmptyMap
    /\ G = EmptyGraph /\ G_active = EmptyGraph /\ dormant = {}
    /\ gate_row = EmptyMap /\ gate = NoGate
    /\ crit = EmptyMap /\ crit_pcts = EmptyMap /\ decay = EmptyMap
    /\ pony = EmptyMap /\ mds = <<>> /\ kci = <<>>
    /\ df_projects = EmptyMap /\ fer = <<>>
    /\ sources = EmptyMap /\ df_scores = <<>> /\ gate_results = <<>>
    /\ adopt_scores = EmptyMap /\ G_und = EmptyGraph /\ kcores = EmptyMap
    /\ bridges = {} /\ stages = <<>> /\ threads = EmptyMap

NextCompare == CompareSnapshots("done")

SpecCompare == InitCompare /\ [][NextCompare]_vars

Compared == pc = "done" /\ stages = <<"compare_snapshots">>

(* The five directional deltas from a to b, as better (+1), worse (-1) or  *)
(* unchanged (0); Moved counts a change only beyond the field's tolerance. *)
LowerBetter == { "pony_factor_rate", "mean_hhi", "maintenance_debt_surface_size",
                 "keystone_contributor_count" }

ComparedFields == LowerBetter \cup { "gate_pass_rate" }

Tolerance(f) ==
    CASE f \in {"pony_factor_rate", "gate_pass_rate"} -> 100
      [] f = "mean_hhi" -> 500
      [] OTHER -> 0

Gain(a, b, f) == IF f \in LowerBetter THEN a[f] - b[f] ELSE b[f] - a[f]

Improvements(a, b) == { f \in ComparedFields : Gain(a, b, f) > 0 }
Degradations(a, b) == { f \in ComparedFields : Gain(a, b, f) < 0 }

MovedBetter(a, b) == { f \in ComparedFields : Gain(a, b, f) > Tolerance(f) }
MovedWorse(a, b) == { f \in ComparedFields : 0 - Gain(a, b, f) > Tolerance(f) }

Majority(S) == 2 * Cardinality(S) > Cardinality(ComparedFields)

(* C24: for any two snapshots a and b, the comparison classifies the       *)
(* overall trend as improving when the majority of the five directional    *)
(* deltas (pony-factor rate, mean HHI, debt-surface size, keystone count:  *)
(* decrease is better; gate pass rate: increase is better) are             *)
(* improvements, as degrading when the majority are degradations, and as   *)
(* stable otherwise.                                                       *)
C24_TrendByMajority ==
    Compared =>
        delta.fragility_trend =
            IF Majority(Improvements(snapshot_a, snapshot)) THEN "improving"
            ELSE IF Majority(Degradations(snapshot_a, snapshot)) THEN "degrading"
            ELSE "stable"

(* C24 as the code has it: a rate counts as changed only when it moved by  *)
(* more than 0.01, the mean HHI by more than 50, a size by any amount; the *)
(* trend is improving when more fields moved for the better than for the   *)
(* worse, degrading when more moved for the worse, and stable when the two *)
(* counts are equal.                                                       *)
C24_TrendByPlurality ==
    Compared =>
        LET better == Cardinality(MovedBetter(snapshot_a, snapshot))
            worse  == Cardinality(MovedWorse(snapshot_a, snapshot))
        IN  /\ delta.fragility_trend =
                   IF better > worse THEN "improving"
                   ELSE IF worse > better THEN "degrading"
                   ELSE "stable"
            /\ Len(delta.metrics_improved) = better
            /\ Len(delta.metrics_degraded) = worse

(* One field improved beyond its tolerance, none degraded, three moved     *)
(* within tolerance or not at all: improving without a majority.           *)
C24_Witness ==
    /\ Compared
    /\ MovedBetter(snapshot_a, snapshot) = {"maintenance_debt_surface_size"}
    /\ MovedWorse(snapshot_a, snapshot) = {}
    /\ "pony_factor_rate" \in Degradations(snapshot_a, snapshot)
    /\ delta.fragility_trend = "improving"

----------------------------------------------------------------------------
(* What enrichment leaves in place.                                        *)

(* Every node of A is a node of B and every edge of A still joins its two  *)
(* endpoints in B (its attributes may have been updated).                  *)
Kept(A, B) ==
    /\ A.nodes \subseteq B.nodes
    /\ \A e \in A.edges : \E f \in B.edges : f.u = e.u /\ f.v = e.v

(* C25: after any sequence of enrich_graph_with_ingestion calls, every     *)
(* node and every edge that was in the graph before the calls is still in  *)
(* it: each call only adds nodes and edges or updates attributes.          *)
C25_EnrichmentNeverDeletes ==
    [][pc = "enrich_graph_with_ingestion" => Kept(G, G')]_vars

(* Two enrichments of a graph built with a belongs_to edge, which added    *)
(* both nodes and edges.                                                   *)
C25_Witness ==
    /\ Len(stages) = 3
    /\ build_graph_from_csv(sources).edges # {}
    /\ Kept(build_graph_from_csv(sources), G)
    /\ Cardinality(G.nodes) > Cardinality(build_graph_from_csv(sources).nodes)
    /\ Cardinality(G.edges) > Cardinality(build_graph_from_csv(sources).edges) + 1

----------------------------------------------------------------------------
(* ingestion/orchestrator.py: Checkpoint                                   *)

(* Everything the checkpoint and ingestion calls leave alone.              *)
scoring == <<config, G, G_active, dormant, crit, crit_pcts, decay, pony,
             gate_row, gate, mds, kci, df_projects, fer, ext, stages,
             snapshot_a, delta>>

Keys == {"a7", "deps_enrich"}

Items == {"u1", "u2"}

ItemOrder == <<"u1", "u2">>

(* {checkpoint_dir}/{key}_progress.json and the .tmp file next to it.      *)
_path(key) == [name |-> key, suffix |-> "_progress.json"]

tmp_path_mut(key) == _path(key)

tmp_path(key) == [name |-> key, suffix |-> "_progress.json.tmp"]

(* The content of a file: complete JSON text of a dict, or the first part  *)
(* of one (anything from an empty file to all but the last character).     *)
Json(data) == [kind |-> "json", data |-> data]

Partial == [kind |-> "partial", data |-> EmptyMap]

(* data.get(k, default).                                                   *)
dict_get(data, k, default) == IF k \in DOMAIN data THEN data[k] ELSE default

dict_set(data, k, v) == [ j \in DOMAIN data \cup {k} |-> IF j = k THEN v ELSE data[j] ]

(* set(list) and sorted(set) on item ids.                                  *)
set_of(list) == { list[i] : i \in 1..Len(list) }

sorted(S) == SelectSeq(ItemOrder, LAMBDA i : i \in S)

(* Checkpoint.load: {} when the file is missing or is not valid JSON.      *)
load(fs, key) ==
    IF _path(key) \notin DOMAIN fs THEN EmptyMap
    ELSE IF fs[_path(key)].kind # "json" THEN EmptyMap
    ELSE fs[_path(key)].data

(* Checkpoint.is_done.                                                     *)
is_done(fs, key, item_id) == item_id \in set_of(dict_get(load(fs, key), "done", <<>>))

marked_mut(data, item_id) == dict_set(data, "done", sorted({item_id}))

(* Checkpoint.mark_done up to its save: the dict it hands to save.         *)
marked(data, item_id) ==
    dict_set(data, "done", sorted(set_of(dict_get(data, "done", <<>>)) \cup {item_id}))

write_file(fs, path, content) ==
    [ q \in DOMAIN fs \cup {path} |-> IF q = path THEN content ELSE fs[q] ]

(* os.replace(src, dst): dst gets the content of src, src is gone.         *)
os_replace(fs, src, dst) ==
    [ q \in (DOMAIN fs \ {src}) \cup {dst} |-> IF q = dst THEN fs[src] ELSE fs[q] ]

Idle == [op |-> "idle", key |-> "", item_id |-> "", data |-> EmptyMap]

(* A call of checkpoint.mark_done(key, item_id): load, add, sort.          *)
MarkDone ==
    /\ pc = "idle"
    /\ \E key \in Keys, item_id \in Items :
           /\ proc' = [op |-> "mark_done", key |-> key, item_id |-> item_id,
                       data |-> marked(load(files, key), item_id)]
           /\ hist' = [hist EXCEPT !.called = @ \cup {<<key, item_id>>}]
    /\ pc' = "save_open"
    /\ UNCHANGED <<files, scoring>>

(* A call of checkpoint.save(key, data) by a caller that has loaded the    *)
(* checkpoint and added an entry to its activity cache.                    *)
Save ==
    /\ pc = "idle"
    /\ \E key \in Keys, url \in Items :
           LET data == load(files, key)
           IN  proc' = [op |-> "save", key |-> key, item_id |-> "",
                        data |-> dict_set(data, "activity_cache",
                                          dict_get(data, "activity_cache", {}) \cup {url})]
    /\ pc' = "save_open"
    /\ UNCHANGED <<files, hist, scoring>>

(* open(tmp, "w"): the file exists and is empty.                           *)
SaveOpen ==
    /\ pc = "save_open"
    /\ files' = write_file(files, tmp_path(proc.key), Partial)
    /\ pc' = "save_dump"
    /\ UNCHANGED <<proc, hist, scoring>>

(* json.dump and the close at the end of the with block.                   *)
SaveDump ==
    /\ pc = "save_dump"
    /\ files' = write_file(files, tmp_path(proc.key), Json(proc.data))
    /\ pc' = "save_replace"
    /\ UNCHANGED <<proc, hist, scoring>>

SaveReplace ==
    /\ pc = "save_replace"
    /\ files' = os_replace(files, tmp_path(proc.key), _path(proc.key))
    /\ pc' = "save_return"
    /\ UNCHANGED <<proc, hist, scoring>>

(* save returns and, in mark_done, so does mark_done.                      *)
SaveReturn ==
    /\ pc = "save_return"
    /\ hist' = IF proc.op = "mark_done"
               THEN [hist EXCEPT !.returned = @ \cup {<<proc.key, proc.item_id>>}]
               ELSE hist
    /\ proc' = Idle
    /\ pc' = "idle"
    /\ UNCHANGED <<files, scoring>>

(* The process dies inside save; a new process starts with the files as    *)
(* they are.                                                               *)
Crash ==
    /\ pc \in {"save_open", "save_dump", "save_replace"}
    /\ proc' = Idle
    /\ pc' = "idle"
    /\ UNCHANGED <<files, hist, scoring>>

InitCheckpoint ==
    /\ pc = "idle"
    /\ config = DEFAULT_CONFIG
    /\ files = EmptyMap
    /\ proc = Idle
    /\ hist = [called |-> {}, returned |-> {}]
    /\ snapshot_a = EmptyMap /\ delta = EmptyMap
    /\ G = EmptyGraph /\ G_active = EmptyGraph /\ dormant = {}
    /\ gate_row = EmptyMap /\ gate = NoGate
    /\ crit = EmptyMap /\ crit_pcts = EmptyMap /\ decay = EmptyMap
    /\ pony = EmptyMap /\ mds = <<>> /\ kci = <<>>
    /\ df_projects = EmptyMap /\ fer = <<>>
    /\ sources = EmptyMap /\ df_scores = <<>> /\ gate_results = <<>>
    /\ adopt_scores = EmptyMap /\ G_und = EmptyGraph /\ kcores = EmptyMap
    /\ bridges = {} /\ snapshot = EmptyMap /\ stages = <<>> /\ threads = EmptyMap

NextCheckpoint ==
    \/ MarkDone \/ Save
    \/ SaveOpen \/ SaveDump \/ SaveReplace \/ SaveReturn
    \/ Crash

SpecCheckpoint == InitCheckpoint /\ [][NextCheckpoint]_vars

(* C26: in sequential use of a Checkpoint, once mark_done(key, item) has   *)
(* returned, is_done(key, item) is true and stays true after any later     *)
(* sequence of mark_done calls for any items and keys; marking one item    *)
(* never un-marks another, and an item for which mark_done was never       *)
(* called under a key is reported not done.                                *)
C26_MarkedStaysDone ==
    \A key \in Keys : \A item_id \in Items :
        /\ <<key, item_id>> \in hist.returned => is_done(files, key, item_id)
        /\ is_done(files, key, item_id) => <<key, item_id>> \in hist.called

(* Both items marked under one key, one under the other.                   *)
C26_Witness ==
    /\ pc = "idle"
    /\ hist.returned = { <<"a7", "u1">>, <<"a7", "u2">>, <<"deps_enrich", "u2">> }
    /\ hist.called = hist.returned
    /\ is_done(files, "a7", "u1") /\ is_done(files, "a7", "u2")
    /\ is_done(files, "deps_enrich", "u2") /\ ~is_done(files, "deps_enrich", "u1")

(* C27: Checkpoint.save is atomic: at every point during and after a save, *)
(* a crash part-way through included, load(key) returns either the         *)
(* complete previously saved content or the complete new content, never a  *)
(* partially written file, and after a completed save no .tmp file remains. *)
C27_SaveIsAtomic ==
    [][ /\ \A key \in Keys :
              \/ load(files', key) = load(files, key)
              \/ /\ pc = "save_replace" /\ proc.key = key
                 /\ load(files', key) = proc.data
        /\ \A key \in Keys :
              _path(key) \in DOMAIN files' => files'[_path(key)].kind = "json"
        /\ pc' = "save_return" =>
              /\ tmp_path(proc.key) \notin DOMAIN files'
              /\ load(files', proc.key) = proc.data ]_vars

(* A save that crashed with its .tmp half written, over a checkpoint saved *)
(* before and still read back whole.                                       *)
C27_Witness ==
    /\ pc = "idle"
    /\ tmp_path("a7") \in DOMAIN files /\ files[tmp_path("a7")].kind = "partial"
    /\ _path("a7") \in DOMAIN files
    /\ load(files, "a7") = dict_set(dict_set(EmptyMap, "done", <<"u1">>), "activity_cache", {"u2"})

----------------------------------------------------------------------------
(* ingestion/orchestrator.py: run_a7_ingestion, and the contributor CSV    *)
(* its caller run_full_ingestion writes from what it returns.  The data of *)
(* a repo is determined by its URL, so contribution edges and activity     *)
(* data are kept as the sets of URLs they cover; a checkpoint call is one  *)
(* step.                                                                   *)

MaxRuns == 3           \* runs of run_a7_ingestion on one checkpoint directory

urls == ItemOrder

contrib_csv == [name |-> "contributor_stats", suffix |-> ".csv"]

A7Locals(cache) ==
    [ idx |-> 1, results |-> <<>>, activity_cache |-> cache,
      contribution_edges |-> {}, activity_data |-> {} ]

(* Up to the loop: the URLs, and the activity cache of the checkpoint.     *)
A7Start ==
    /\ pc = "run_a7_ingestion"
    /\ proc' = A7Locals(dict_get(load(files, "a7"), "activity_cache", {}))
    /\ pc' = "a7_loop"
    /\ UNCHANGED <<files, hist, scoring>>

(* if checkpoint.is_done("a7", url): continue                              *)
A7Skip ==
    /\ pc = "a7_loop" /\ proc.idx <= Len(urls)
    /\ is_done(files, "a7", urls[proc.idx])
    /\ proc' = [proc EXCEPT !.idx = @ + 1]
    /\ UNCHANGED <<pc, files, hist, scoring>>

(* parse_repo_contributions returned: the result is appended and the URL   *)
(* marked done.                                                            *)
A7Parsed ==
    /\ pc = "a7_loop" /\ proc.idx <= Len(urls)
    /\ ~is_done(files, "a7", urls[proc.idx])
    /\ proc' = [proc EXCEPT !.idx = @ + 1, !.results = Append(@, urls[proc.idx])]
    /\ files' = write_file(files, _path("a7"),
                           Json(marked(load(files, "a7"), urls[proc.idx])))
    /\ hist' = [hist EXCEPT !.processed = @ \cup {urls[proc.idx]}]
    /\ UNCHANGED <<pc, scoring>>

(* parse_repo_contributions raised: the error is logged, nothing marked.   *)
A7Failed ==
    /\ pc = "a7_loop" /\ proc.idx <= Len(urls)
    /\ ~is_done(files, "a7", urls[proc.idx])
    /\ proc' = [proc EXCEPT !.idx = @ + 1]
    /\ UNCHANGED <<pc, files, hist, scoring>>

(* After the loop: the edges and activity data of this run's results, the  *)
(* cache update, the two recoveries, and the return.                       *)
a7_activity_data(results, cache) ==
    IF set_of(results) = {} /\ cache # {} THEN cache ELSE set_of(results)

a7_contribution_edges(results, fs) ==
    IF set_of(results) = {} /\ contrib_csv \in DOMAIN fs
    THEN fs[contrib_csv].data ELSE set_of(results)

A7Return ==
    /\ pc = "a7_loop" /\ proc.idx > Len(urls)
    /\ files' = IF set_of(proc.results) = {} THEN files
                ELSE LET _ckpt == load(files, "a7")
                     IN  write_file(files, _path("a7"),
                             Json(dict_set(_ckpt, "activity_cache",
                                      dict_get(_ckpt, "activity_cache", {})
                                        \cup set_of(proc.results))))
    /\ proc' = [proc EXCEPT
                  !.activity_data = a7_activity_data(proc.results, proc.activity_cache),
                  !.contribution_edges = a7_contribution_edges(proc.results, files)]
    /\ pc' = "write_csv"
    /\ UNCHANGED <<hist, scoring>>

(* run_full_ingestion: contributor_stats.csv is rewritten when the run     *)
(* returned contribution edges, and kept otherwise.                        *)
WriteContributorStats ==
    /\ pc = "write_csv"
    /\ files' = IF proc.contribution_edges = {} THEN files
                ELSE write_file(files, contrib_csv, Json(proc.contribution_edges))
    /\ pc' = "ingested"
    /\ UNCHANGED <<proc, hist, scoring>>

(* The run is interrupted inside the loop of run_a7_ingestion and started  *)
(* again on the same checkpoint directory.                                 *)
A7Interrupt ==
    /\ pc = "a7_loop"
    /\ hist.runs < MaxRuns
    /\ hist' = [hist EXCEPT !.runs = @ + 1, !.interrupted = TRUE]
    /\ proc' = Idle
    /\ pc' = "run_a7_ingestion"
    /\ UNCHANGED <<files, scoring>>

(* A later run after a completed one.                                      *)
A7RunAgain ==
    /\ pc = "ingested"
    /\ hist.runs < MaxRuns
    /\ hist' = [hist EXCEPT !.runs = @ + 1]
    /\ proc' = Idle
    /\ pc' = "run_a7_ingestion"
    /\ UNCHANGED <<files, scoring>>

InitIngestion ==
    /\ pc = "run_a7_ingestion"
    /\ config = DEFAULT_CONFIG
    /\ files = EmptyMap
    /\ proc = Idle
    /\ hist = [processed |-> {}, runs |-> 1, interrupted |-> FALSE]
    /\ snapshot_a = EmptyMap /\ delta = EmptyMap
    /\ G = EmptyGraph /\ G_active = EmptyGraph /\ dormant = {}
    /\ gate_row = EmptyMap /\ gate = NoGate
    /\ crit = EmptyMap /\ crit_pcts = EmptyMap /\ decay = EmptyMap
    /\ pony = EmptyMap /\ mds = <<>> /\ kci = <<>>
    /\ df_projects = EmptyMap /\ fer = <<>>
    /\ sources = EmptyMap /\ df_scores = <<>> /\ gate_results = <<>>
    /\ adopt_scores = EmptyMap /\ G_und = EmptyGraph /\ kcores = EmptyMap
    /\ bridges = {} /\ snapshot = EmptyMap /\ stages = <<>> /\ threads = EmptyMap

NextIngestion ==
    \/ A7Start \/ A7Skip \/ A7Parsed \/ A7Failed \/ A7Return
    \/ WriteContributorStats
    \/ A7Interrupt \/ A7RunAgain

SpecIngestion == InitIngestion /\ [][NextIngestion]_vars

(* What a new run could read back for a URL from the checkpoint and the    *)
(* contributor CSV.                                                        *)
Recoverable(fs, url) ==
    /\ url \in dict_get(load(fs, "a7"), "activity_cache", {})
    /\ contrib_csv \in DOMAIN fs /\ url \in fs[contrib_csv].data

(* C28: if run_a7_ingestion is interrupted at any point and then run again *)
(* with the same checkpoint, no result is lost: a URL is skipped on the    *)
(* resumed run only if its contribution edges and activity data are        *)
(* recoverable from persisted state, and the resumed run returns the data  *)
(* of every repo that was processed successfully in either run.            *)
C28_ResumeLosesNothing ==
    hist.interrupted =>
        /\ (pc = "a7_loop" /\ proc.idx <= Len(urls) /\ is_done(files, "a7", urls[proc.idx]))
               => Recoverable(files, urls[proc.idx])
        /\ pc = "write_csv" =>
               /\ hist.processed \subseteq proc.activity_data
               /\ hist.processed \subseteq proc.contribution_edges

(* ---- criticality and membership in the active subgraph ---------------- *)

(* The Repo/ExternalRepo nodes of Ga, other than P, that depend on P       *)
(* through one or more depends_on edges, whatever their active flag.       *)
RetainedDependents(Ga, P) ==
    { n \in dep_nodes(Ga) \ {P} : <<n, P>> \in DependsOnPairs(Ga) }

(* A retained node whose active flag is not True: an ExternalRepo added by *)
(* the enrichment with active=None, or a Repo the builder marked inactive  *)
(* at 90 days that a longer window retains.                                *)
RetainedUnflagged(Ga) ==
    { n \in dep_nodes(Ga) : Ga.attr[n].active # "True" }

(* C29: once run_full_pipeline has computed criticality, every             *)
(* Repo/ExternalRepo node retained in the active subgraph that             *)
(* transitively depends on P contributes 1 to criticality(P), so           *)
(* criticality(P) is the number of retained transitive dependents of P,    *)
(* an ExternalRepo retained with unknown activity included.                *)
C29_MembershipDecides ==
    "compute_criticality_scores" \in Completed
        => \A P \in DOMAIN crit :
               crit[P] = Cardinality(RetainedDependents(G_active, P))

(* ---- one gate decision per retained repo ------------------------------ *)

(* The gate stage of run_full_pipeline has finished: the rows were built   *)
(* and evaluate_all_projects has returned or was skipped for want of rows. *)
GateStageDone == "gate_rows" \in Completed /\ pc # "evaluate_all_projects"

(* The positions of gate_results that decide on repo.                      *)
GateResultsFor(repo) ==
    { i \in 1..Len(gate_results) : gate_results[i].project = repo }

(* C30: when the gate stage of run_full_pipeline has finished, every Repo  *)
(* node retained in the active subgraph has exactly one gate result: none  *)
(* is left without a pass/fail decision and none is evaluated twice.       *)
C30_OneGateResultPerRetainedRepo ==
    GateStageDone
        => \A repo \in RepoNodes(G_active) : Cardinality(GateResultsFor(repo)) = 1

====
